---- MODULE Spec2Model ----
(***************************************************************************)
(* Model of the data-synchronisation service (package service):           *)
(* SyncService with its scheduling loop, the per-table pipeline            *)
(* syncTable (schema repair, change detection, paged replication with      *)
(* retries, drift cleanup) and the two databases it works on.              *)
(***************************************************************************)
EXTENDS Integers, Sequences, FiniteSets, TLC

\* ---------------------------------------------------------------- bounds
MaxId == 2
MaxK == 2
MaxTs == 2
MaxRows == 2
MaxBatch == 2
MaxTicks == 2
MaxObservers == 2
MaxCols == 2
MaxConns == 3
MaxRecords == 3

\* ------------------------------------------------------ program constants
retryCount == 3
baseDelay == 100
maxRetryDelay == 2000

VARIABLES config, sourceDB, targetDB, tasks, observers, ticks, wg, pc, frame, log

\* the context given to StartSync and the service's own context s.ctx
\* ("live" or "done"), and whether StartSync has returned
VARIABLES ctx, sctx, returned

\* the locks: mutex[t] is the RWMutex of task t (w: held by a writer, r: the
\* number of readers holding it), smutex is the holder of the service's mutex
VARIABLES mutex, smutex

\* statement by statement: iter is the range loop of syncAll over the
\* registry (where syncAll is, and the keys still to produce), pending[t] the
\* error with which the run of t is about to end, reader a goroutine that
\* reads the status of a task, adder a goroutine that calls AddSyncTask
VARIABLES iter, pending, reader, adder

\* written[t] tells in which tick Status and Error of t were last written;
\* race tells whether the registry was written while it was being iterated
\* ("none", "undetected", or "fatal" when the runtime has stopped the program)
VARIABLES written, race

\* the structure comparison: comparer holds the two databases' catalog entry
\* of the compared table (SourceDB, TargetDB), plan is the result of Compare,
\* applied is a copy of the target table on which the statements of the plan
\* are run in list order, cmp tells how far the comparison has got
VARIABLES comparer, plan, applied, cmp

\* the connection pool of the target database: for every connection who
\* holds it (at) and the value of its session variable FOREIGN_KEY_CHECKS
VARIABLES conns

\* the benchmark service under its test: bench holds the position of
\* syncAllSyncServiceBenchMark, the rows the mocked query returns, the
\* expectations the mock still holds and the statements it was sent
VARIABLES bench

\* the compare command over all tables: cmd holds its position, the tables of
\* the two databases and the target-only tables still to be handled
VARIABLES cmd

\* the state that the pipeline of a task never reads or writes
rest == <<ctx, sctx, returned, mutex, smutex, iter, pending, reader, adder, written, race,
          comparer, plan, applied, cmp, conns, bench, cmd>>

vars == <<config, sourceDB, targetDB, tasks, observers, ticks, wg, pc, frame, log, rest>>

\* ------------------------------------------------------------------ data
\* A row of a table t(id, k, ts): ts is at once the payload and the
\* update-timestamp column.
Row == [id : 1..MaxId, k : 1..MaxK, ts : 1..MaxTs]

BaseCols == <<"id", "k", "ts">>

\* Value of a column in a row; columns outside (id, k, ts) hold NULL (0).
Val(r, col) ==
    CASE col = "id" -> r.id
      [] col = "k" -> r.k
      [] col = "ts" -> r.ts
      [] OTHER -> 0

Range(s) == {s[i] : i \in 1..Len(s)}

\* The value of the primary key pk (a sequence of column names) in a row.
Key(pk, r) == [i \in 1..Len(pk) |-> Val(r, pk[i])]

IsTable(pk, S) == \A r1, r2 \in S : Key(pk, r1) = Key(pk, r2) => r1 = r2

RowLess(r1, r2) ==
    \/ r1.id < r2.id
    \/ r1.id = r2.id /\ r1.k < r2.k
    \/ r1.id = r2.id /\ r1.k = r2.k /\ r1.ts < r2.ts

\* The order in which a table scan returns the rows (clustered index order).
RECURSIVE Scan(_)
Scan(S) ==
    IF S = {} THEN <<>>
    ELSE LET m == CHOOSE r \in S : \A o \in S : o = r \/ RowLess(r, o)
         IN <<m>> \o Scan(S \ {m})

Min(a, b) == IF a < b THEN a ELSE b

\* OFFSET off LIMIT lim over a result sequence
OffsetLimit(s, off, lim) == SubSeq(s, off + 1, Min(Len(s), off + lim))

RECURSIVE Pow2(_)
Pow2(n) == IF n = 0 THEN 1 ELSE 2 * Pow2(n - 1)

Ev(e, a) == [ev |-> e, arg |-> a]

\* ------------------------------------------------------- service set-up
\* AddSyncTask: tasks[sourceTable] = &SyncTask{...}
AddSyncTask(ts, cfg, sourceTable, targetTable) ==
    [x \in (DOMAIN ts) \cup {sourceTable} |->
        IF x = sourceTable
        THEN [SourceTable |-> sourceTable, TargetTable |-> targetTable,
              BatchSize |-> cfg.BatchSize, Status |-> "ready", Error |-> "nil"]
        ELSE ts[x]]

RECURSIVE AddPairs(_, _, _)
AddPairs(ts, cfg, i) ==
    IF i > Len(cfg.TablePairs) THEN ts
    ELSE AddPairs(AddSyncTask(ts, cfg, cfg.TablePairs[i].Source, cfg.TablePairs[i].Target),
                  cfg, i + 1)

\* NewSyncService: one AddSyncTask per configured pair, in order
NewSyncService(cfg) == AddPairs(<<>>, cfg, 1)

\* getTableConfig: first configured pair with that source, else the default
getTableConfig(sourceTable) ==
    IF \E i \in 1..Len(config.TablePairs) : config.TablePairs[i].Source = sourceTable
    THEN LET i == CHOOSE j \in 1..Len(config.TablePairs) :
                    /\ config.TablePairs[j].Source = sourceTable
                    /\ \A h \in 1..(j - 1) : config.TablePairs[h].Source # sourceTable
         IN config.TablePairs[i]
    ELSE [Source |-> sourceTable, Target |-> sourceTable,
          CheckMethod |-> "checksum", UpdateField |-> ""]

EmptyFrame ==
    [columns |-> <<>>, totalPages |-> 0, page |-> 0, sourceRecords |-> <<>>,
     attempt |-> 0, lastErr |-> FALSE, tx |-> {}, before |-> {},
     targetColNames |-> <<>>]

\* an RWMutex that nobody holds
FreeMutex == [w |-> FALSE, r |-> 0]

\* a reader that holds no lock and has read nothing
IdleReader ==
    [pc |-> "idle", t |-> "", Status |-> "unread", Error |-> "unread",
     statusRun |-> 0, errorRun |-> 0]

NeverWritten == [Status |-> 0, Error |-> 0]

\* a table that is not in the catalog: no column, no index, no primary key
NoTable == [Columns |-> <<>>, Indexes |-> {}, PrimaryKey |-> <<>>]

\* no Compare has returned yet
NoPlan == [TableName |-> "", Differences |-> <<>>, Status |-> ""]

\* ---------------------------------------------------------------- Init
TablesOver(pk, ids, ks, tss) ==
    {S \in SUBSET {r \in Row : r.id \in ids /\ r.k \in ks /\ r.ts \in tss} :
        Cardinality(S) <= MaxRows /\ IsTable(pk, S)}

Pair(s, t, m, f) == [Source |-> s, Target |-> t, CheckMethod |-> m, UpdateField |-> f]

Table(cols, pk, rows) == [cols |-> cols, pk |-> pk, rows |-> rows]

\* the check methods a validated configuration can carry besides
\* "checksum", with the timestamp column (one that exists on the tables, one
\* that does not)
OtherMethods ==
    {<<"count", "">>, <<"update_time", "ts">>, <<"update_time", "modified">>}

\* the service as main leaves it before StartSync: the tasks registered from
\* the configuration, the observers registered (one where a single pair is
\* configured, up to MaxObservers otherwise), no tick yet
InitCommon ==
    /\ tasks = NewSyncService(config)
    /\ observers \in (IF Len(config.TablePairs) = 1 THEN {1} ELSE 1..MaxObservers)
    /\ ticks = 0
    /\ wg = {}
    /\ pc = [t \in DOMAIN tasks |-> "idle"]
    /\ frame = [t \in DOMAIN tasks |-> EmptyFrame]
    /\ log = [t \in DOMAIN tasks |-> <<>>]
    /\ ctx = "live" /\ sctx = "live" /\ returned = FALSE
    /\ mutex = [t \in DOMAIN tasks |-> FreeMutex]
    /\ smutex = "free"
    /\ iter = [at |-> "select", todo |-> {}]
    /\ pending = [t \in DOMAIN tasks |-> "nil"]
    /\ reader = IdleReader
    /\ adder = "idle"
    /\ written = [t \in DOMAIN tasks |-> NeverWritten]
    /\ race = "none"

\* a connection that is not open; a session starts with FOREIGN_KEY_CHECKS = 1
Closed == [at |-> "closed", fk |-> 1]

\* the benchmark test has not set up its mock
IdleBench == [pc |-> "idle", rows |-> <<>>, expected |-> <<>>, issued |-> <<>>,
              records |-> <<>>, failed |-> FALSE]

\* the compare command is not running
IdleCmd == [pc |-> "idle", source |-> {}, target |-> {}, before |-> {},
            extraTables |-> <<>>, created |-> ""]

\* no structure comparison is under way and no connection is open
InitComparer ==
    /\ comparer = [SourceDB |-> NoTable, TargetDB |-> NoTable]
    /\ plan = NoPlan
    /\ applied = NoTable
    /\ cmp = "idle"
    /\ conns = [c \in 1..MaxConns |-> Closed]
    /\ bench = IdleBench
    /\ cmd = IdleCmd

\* one configured pair checked by checksum; tables with a one-column primary
\* key (id) or a two-column primary key (id, k)
InitData ==
    \E pk \in {<<"id">>, <<"id", "k">>}, b \in 1..MaxBatch, mode \in {"full", "incremental"} :
    LET ks == IF Len(pk) = 1 THEN {1} ELSE 1..MaxK
        tss == IF Len(pk) = 1 THEN 1..MaxTs ELSE {1}
    IN \E src \in TablesOver(pk, 1..MaxId, ks, tss), tgt \in TablesOver(pk, 1..MaxId, ks, tss) :
        /\ config = [BatchSize |-> b, SyncMode |-> mode,
                     TablePairs |-> <<Pair("s1", "t1", "checksum", "")>>]
        /\ sourceDB = [n \in {"s1"} |-> Table(BaseCols, pk, src)]
        /\ targetDB = [n \in {"t1"} |-> Table(BaseCols, pk, tgt)]

\* one configured pair checked by count or by update time
InitDetect ==
    \E m \in OtherMethods, b \in 1..MaxBatch, mode \in {"full", "incremental"} :
    \E src \in TablesOver(<<"id">>, 1..MaxId, {1}, 1..MaxTs),
       tgt \in TablesOver(<<"id">>, 1..MaxId, {1}, 1..MaxTs) :
        /\ config = [BatchSize |-> b, SyncMode |-> mode,
                     TablePairs |-> <<Pair("s1", "t1", m[1], m[2])>>]
        /\ sourceDB = [n \in {"s1"} |-> Table(BaseCols, <<"id">>, src)]
        /\ targetDB = [n \in {"t1"} |-> Table(BaseCols, <<"id">>, tgt)]

\* one configured pair whose tables differ in their columns: the source has
\* columns the target lacks, the target has columns the source lacks, or the
\* target table does not exist (no column in the catalog)
InitSchema ==
    \E sc \in {BaseCols, BaseCols \o <<"email">>, BaseCols \o <<"email", "note">>},
       tc \in {<<>>, BaseCols, BaseCols \o <<"email">>, BaseCols \o <<"note">>,
               BaseCols \o <<"email", "note">>} :
    \E src \in TablesOver(<<"id">>, {1}, {1}, {1}),
       tgt \in TablesOver(<<"id">>, 1..MaxId, {1}, {1}) :
        /\ tc = <<>> => tgt = {}
        /\ config = [BatchSize |-> 1, SyncMode |-> "full",
                     TablePairs |-> <<Pair("s1", "t1", "checksum", "")>>]
        /\ sourceDB = [n \in {"s1"} |-> Table(sc, <<"id">>, src)]
        /\ targetDB = [n \in {"t1"} |-> Table(tc, <<"id">>, tgt)]

\* two configured pairs on different tables
InitTwo ==
    \E src1 \in TablesOver(<<"id">>, {1}, {1}, {1}), tgt2 \in TablesOver(<<"id">>, {1}, {1}, {1}) :
        /\ config = [BatchSize |-> 1, SyncMode |-> "full",
                     TablePairs |-> <<Pair("s1", "t1", "checksum", ""),
                                      Pair("s2", "t2", "count", "")>>]
        /\ sourceDB = [n \in {"s1", "s2"} |->
                          Table(BaseCols, <<"id">>,
                                IF n = "s1" THEN src1 ELSE {[id |-> 1, k |-> 1, ts |-> 1]})]
        /\ targetDB = [n \in {"t1", "t2"} |->
                          Table(BaseCols, <<"id">>, IF n = "t1" THEN {} ELSE tgt2)]

\* two configured pairs that copy one source table to two target tables,
\* checked by the same method or by different methods
InitDup ==
    \E src \in TablesOver(<<"id">>, {1}, {1}, {1}), tgt2 \in TablesOver(<<"id">>, {1}, {1}, {1}),
       m \in {"checksum", "count"} :
        /\ config = [BatchSize |-> 1, SyncMode |-> "full",
                     TablePairs |-> <<Pair("s1", "t1", "checksum", ""),
                                      Pair("s1", "t2", m, "")>>]
        /\ sourceDB = [n \in {"s1"} |-> Table(BaseCols, <<"id">>, src)]
        /\ targetDB = [n \in {"t1", "t2"} |->
                          Table(BaseCols, <<"id">>, IF n = "t1" THEN {} ELSE tgt2)]

\* one pair of a configuration that was built without LoadConfig's
\* validation: an empty or unknown check method, or update_time without a
\* timestamp column
InitLoose ==
    \E m \in {<<"", "">>, <<"md5", "">>, <<"update_time", "">>},
       mode \in {"full", "incremental"} :
    \E src \in TablesOver(<<"id">>, {1}, {1}, 1..MaxTs),
       tgt \in TablesOver(<<"id">>, {1}, {1}, 1..MaxTs) :
        /\ config = [BatchSize |-> 1, SyncMode |-> mode,
                     TablePairs |-> <<Pair("s1", "t1", m[1], m[2])>>]
        /\ sourceDB = [n \in {"s1"} |-> Table(BaseCols, <<"id">>, src)]
        /\ targetDB = [n \in {"t1"} |-> Table(BaseCols, <<"id">>, tgt)]

Init ==
    /\ InitData \/ InitDetect \/ InitSchema \/ InitTwo \/ InitDup \/ InitLoose
    /\ InitCommon
    /\ InitComparer

\* ------------------------------------------------------------- actions
\* an error handling that stops the workers of the other tasks as well
notifyErrorStopAll(t, err, evs) ==
    /\ tasks' = [tasks EXCEPT ![t].Status = "error", ![t].Error = err]
    /\ log' = [log EXCEPT ![t] = @ \o evs \o [i \in 1..observers |-> Ev("OnSyncError", i)]]
    /\ pc' = [u \in DOMAIN pc |-> "done"]

\* notifyError: Status and Error under the task lock, then the observers
notifyError(t, err, evs) ==
    /\ tasks' = [tasks EXCEPT ![t].Status = "error", ![t].Error = err]
    /\ log' = [log EXCEPT ![t] = @ \o evs \o [i \in 1..observers |-> Ev("OnSyncError", i)]]
    /\ pc' = [pc EXCEPT ![t] = "done"]

\* a completion that resets the task's last error
completeClearError(t, evs) ==
    /\ tasks' = [tasks EXCEPT ![t].Status = "completed", ![t].Error = "nil"]
    /\ log' = [log EXCEPT ![t] = @ \o evs \o [i \in 1..observers |-> Ev("OnSyncComplete", i)]]
    /\ pc' = [pc EXCEPT ![t] = "done"]

\* a completion that calls the observers last-registered first
completeReversed(t, evs) ==
    /\ tasks' = [tasks EXCEPT ![t].Status = "completed"]
    /\ log' = [log EXCEPT ![t] = @ \o evs \o
                   [i \in 1..observers |-> Ev("OnSyncComplete", observers + 1 - i)]]
    /\ pc' = [pc EXCEPT ![t] = "done"]

\* Status = "completed" under the task lock, then notifyComplete
complete(t, evs) ==
    /\ tasks' = [tasks EXCEPT ![t].Status = "completed"]
    /\ log' = [log EXCEPT ![t] = @ \o evs \o [i \in 1..observers |-> Ev("OnSyncComplete", i)]]
    /\ pc' = [pc EXCEPT ![t] = "done"]

\* a tick that leaves out the tasks whose last run ended in error
TickSkipErrored ==
    /\ ~returned
    /\ wg = {}
    /\ ticks < MaxTicks
    /\ ticks' = ticks + 1
    /\ wg' = {t \in DOMAIN tasks : tasks[t].Status # "error"}
    /\ pc' = [t \in DOMAIN tasks |-> IF tasks[t].Status # "error" THEN "start" ELSE "done"]
    /\ frame' = [t \in DOMAIN tasks |-> EmptyFrame]
    /\ log' = [t \in DOMAIN tasks |-> <<>>]
    /\ UNCHANGED <<config, sourceDB, targetDB, tasks, observers, rest>>

\* StartSync, case <-ticker.C: syncAll launches one worker per registered task
Tick ==
    /\ ~returned
    /\ wg = {}
    /\ ticks < MaxTicks
    /\ ticks' = ticks + 1
    /\ wg' = DOMAIN tasks
    /\ pc' = [t \in DOMAIN tasks |-> "start"]
    /\ frame' = [t \in DOMAIN tasks |-> EmptyFrame]
    /\ log' = [t \in DOMAIN tasks |-> <<>>]
    /\ UNCHANGED <<config, sourceDB, targetDB, tasks, observers, rest>>

\* syncTable: s.notifyStart(task)
NotifyStart(t) ==
    /\ pc[t] = "start"
    /\ log' = [log EXCEPT ![t] = @ \o [i \in 1..observers |-> Ev("OnSyncStart", i)]]
    /\ pc' = [pc EXCEPT ![t] = "schema"]
    /\ UNCHANGED <<config, sourceDB, targetDB, tasks, observers, ticks, wg, frame, rest>>

\* the positions of all the source columns, whether the target has them or not
EveryAt(sourceCols, targetColNames) == [i \in 1..Len(sourceCols) |-> i]

\* the positions, in the source column list, of the columns whose name is
\* absent from the target's column-name set (targetColMap)
MissingAt(sourceCols, targetColNames) ==
    SelectSeq([i \in 1..Len(sourceCols) |-> i],
              LAMBDA i : sourceCols[i] \notin Range(targetColNames))

\* a repair that puts the added columns before the existing ones
AppendColsFirst(cols, sourceCols, idx, n) == [j \in 1..n |-> sourceCols[idx[j]]] \o cols

\* the target's columns after the first n ALTER TABLE ... ADD COLUMN statements
AppendCols(cols, sourceCols, idx, n) == cols \o [j \in 1..n |-> sourceCols[idx[j]]]

\* syncTable: syncTableSchema(task), and notifyError when it fails.
\* o = 1: getColumnDetails(source) fails; o = 2: getAllColumns(target) fails;
\* o = 0: the loop runs and the first n ADD COLUMN statements succeed.
SyncTableSchema(t) ==
    /\ pc[t] = "schema"
    /\ LET S == tasks[t].SourceTable
           T == tasks[t].TargetTable
           sourceCols == sourceDB[S].cols
           targetColNames == targetDB[T].cols
           missing == MissingAt(sourceCols, targetColNames)
       IN \E o \in 0..2 :
          \/ /\ o = 1
             /\ notifyError(t, "ErrSchema", <<Ev("schema_err", 1)>>)
             /\ UNCHANGED targetDB
          \/ /\ o = 2 \/ Len(targetColNames) = 0
             /\ notifyError(t, "ErrSchema", <<Ev("schema_err", 2)>>)
             /\ UNCHANGED targetDB
          \/ /\ o = 0
             /\ Len(targetColNames) > 0
             /\ \E n \in 0..Len(missing) :
                LET adds == [j \in 1..n |-> Ev("add_column", missing[j])]
                IN /\ targetDB' = [targetDB EXCEPT ![T].cols =
                                      AppendCols(@, sourceCols, missing, n)]
                   /\ IF n < Len(missing)
                      THEN notifyError(t, "ErrSchema",
                                       adds \o <<Ev("add_column_err", missing[n + 1])>>)
                      ELSE /\ log' = [log EXCEPT ![t] = @ \o adds \o <<Ev("schema_ok", 0)>>]
                           /\ pc' = [pc EXCEPT ![t] = "columns"]
                           /\ UNCHANGED tasks
    /\ frame' = [frame EXCEPT ![t].targetColNames = targetDB[tasks[t].TargetTable].cols]
    /\ UNCHANGED <<config, sourceDB, observers, ticks, wg, rest>>

\* syncTable: columns, err := s.getAllColumns(s.sourceDB, task.SourceTable)
GetAllColumns(t) ==
    /\ pc[t] = "columns"
    /\ LET cols == sourceDB[tasks[t].SourceTable].cols
       IN \E fail \in BOOLEAN :
          IF fail \/ Len(cols) = 0
          THEN /\ notifyError(t, "ErrColumns", <<Ev("columns_err", 0)>>)
               /\ UNCHANGED frame
          ELSE /\ frame' = [frame EXCEPT ![t].columns = cols]
               /\ log' = [log EXCEPT ![t] = Append(@, Ev("columns_ok", 0))]
               /\ pc' = [pc EXCEPT ![t] = "detect"]
               /\ UNCHANGED tasks
    /\ UNCHANGED <<config, sourceDB, targetDB, observers, ticks, wg, rest>>

\* ---------------------------------------------------- change detection
\* CHECKSUM TABLE: the sum of the rows' checksums (in 32 bits, which the
\* sums of this model never reach); the row checksum is a hash, so different
\* rows can have the same one.
RowCrc(r) == (r.id * 5 + r.k * 3 + r.ts * 7) % 8

RECURSIVE SumCrc(_)
SumCrc(S) ==
    IF S = {} THEN 0
    ELSE LET r == CHOOSE x \in S : TRUE IN RowCrc(r) + SumCrc(S \ {r})

ChecksumTable(db, table) == SumCrc(db[table].rows)

\* SELECT field ... ORDER BY field DESC LIMIT 1 scanned into a time.Time:
\* the zero time (0) when the table has no row
LastUpdate(db, table, field) ==
    LET vs == {Val(r, field) : r \in db[table].rows}
    IN IF vs = {} THEN 0 ELSE CHOOSE v \in vs : \A w \in vs : w <= v

Result(need, err, evs) == [need |-> need, err |-> err, evs |-> evs]

\* q: the query of the detection that fails (0: none); base: the queries
\* issued before this strategy was entered. A failing query is logged as
\* query_err; what the strategy returns for it is the result's err.
checkByChecksum(sourceTable, targetTable, q, base) ==
    IF q = base + 1
    THEN Result(TRUE, "ErrChecksumSource", <<Ev("checkByChecksum", 0), Ev("query_err", q)>>)
    ELSE IF q = base + 2
    THEN Result(TRUE, "ErrChecksumTarget", <<Ev("checkByChecksum", 0), Ev("query_err", q)>>)
    ELSE Result(ChecksumTable(sourceDB, sourceTable) # ChecksumTable(targetDB, targetTable),
                "nil", <<Ev("checkByChecksum", 0)>>)

\* a count strategy that reads a failed count as "no sync needed"
checkByCountLenient(sourceTable, targetTable, q) ==
    IF q \in {1, 2}
    THEN Result(FALSE, "nil", <<Ev("checkByCount", 0), Ev("query_err", q)>>)
    ELSE Result(Cardinality(sourceDB[sourceTable].rows) # Cardinality(targetDB[targetTable].rows),
                "nil", <<Ev("checkByCount", 0)>>)

checkByCount(sourceTable, targetTable, q) ==
    IF q = 1
    THEN Result(TRUE, "ErrCountSource", <<Ev("checkByCount", 0), Ev("query_err", q)>>)
    ELSE IF q = 2
    THEN Result(TRUE, "ErrCountTarget", <<Ev("checkByCount", 0), Ev("query_err", q)>>)
    ELSE Result(Cardinality(sourceDB[sourceTable].rows) # Cardinality(targetDB[targetTable].rows),
                "nil", <<Ev("checkByCount", 0)>>)

\* an update-time strategy that trusts the configuration: no fallback
checkByUpdateTimeTrusting(sourceTable, targetTable, updateField, q) ==
    LET columns == sourceDB[sourceTable].cols
        me == <<Ev("checkByUpdateTime", 0)>>
    IN IF q = 1 \/ Len(columns) = 0
       THEN Result(TRUE, "ErrColumns", me \o <<Ev("query_err", 1)>>)
       ELSE IF q = 2 \/ updateField \notin Range(columns)
       THEN Result(TRUE, "ErrLastUpdateSource", me \o <<Ev("query_err", 2)>>)
       ELSE IF q = 3 \/ updateField \notin Range(targetDB[targetTable].cols)
       THEN Result(TRUE, "ErrLastUpdateTarget", me \o <<Ev("query_err", 3)>>)
       ELSE Result(LastUpdate(sourceDB, sourceTable, updateField)
                     # LastUpdate(targetDB, targetTable, updateField), "nil", me)

\* a query that names a column the table does not have fails
checkByUpdateTime(sourceTable, targetTable, updateField, q) ==
    LET columns == sourceDB[sourceTable].cols
        hasUpdateField == \E i \in 1..Len(columns) : columns[i] = updateField
        me == <<Ev("checkByUpdateTime", 0)>>
    IN IF q = 1 \/ Len(columns) = 0
       THEN Result(TRUE, "ErrColumns", me \o <<Ev("query_err", 1)>>)
       ELSE IF ~hasUpdateField
       THEN LET r == checkByChecksum(sourceTable, targetTable, q, 1)
            IN Result(r.need, r.err, me \o r.evs)
       ELSE IF q = 2 \/ updateField \notin Range(columns)
       THEN Result(TRUE, "ErrLastUpdateSource", me \o <<Ev("query_err", 2)>>)
       ELSE IF q = 3 \/ updateField \notin Range(targetDB[targetTable].cols)
       THEN Result(TRUE, "ErrLastUpdateTarget", me \o <<Ev("query_err", 3)>>)
       ELSE Result(LastUpdate(sourceDB, sourceTable, updateField)
                     # LastUpdate(targetDB, targetTable, updateField), "nil", me)

\* a dispatch whose default is the count strategy
needSyncDefaultCount(task, q) ==
    LET tablePair == getTableConfig(task.SourceTable)
    IN CASE tablePair.CheckMethod = "update_time" ->
                IF tablePair.UpdateField = ""
                THEN checkByChecksum(task.SourceTable, task.TargetTable, q, 0)
                ELSE checkByUpdateTime(task.SourceTable, task.TargetTable,
                                       tablePair.UpdateField, q)
         [] tablePair.CheckMethod = "checksum" ->
                checkByChecksum(task.SourceTable, task.TargetTable, q, 0)
         [] OTHER -> checkByCount(task.SourceTable, task.TargetTable, q)

\* switch tablePair.CheckMethod
needSync(task, q) ==
    LET tablePair == getTableConfig(task.SourceTable)
    IN CASE tablePair.CheckMethod = "update_time" ->
                IF tablePair.UpdateField = ""
                THEN checkByChecksum(task.SourceTable, task.TargetTable, q, 0)
                ELSE checkByUpdateTime(task.SourceTable, task.TargetTable,
                                       tablePair.UpdateField, q)
         [] tablePair.CheckMethod = "count" ->
                checkByCount(task.SourceTable, task.TargetTable, q)
         [] OTHER -> checkByChecksum(task.SourceTable, task.TargetTable, q, 0)

\* syncTable: needSync, err := s.needSync(task, columns) and the two
\* early returns that follow it
NeedSync(t) ==
    /\ pc[t] = "detect"
    /\ \E q \in 0..3 :
       LET r == needSync(tasks[t], q)
       IN IF r.err # "nil"
          THEN notifyError(t, r.err, r.evs \o <<Ev("detect_err", 0)>>)
          ELSE IF ~r.need
          THEN complete(t, r.evs \o <<Ev("detect", 0)>>)
          ELSE /\ log' = [log EXCEPT ![t] = @ \o r.evs \o <<Ev("detect", 1)>>]
               /\ pc' = [pc EXCEPT ![t] = "count"]
               /\ UNCHANGED tasks
    /\ UNCHANGED <<config, sourceDB, targetDB, observers, ticks, wg, frame, rest>>

\* ---------------------------------------------------------- replication
\* an integer division that drops the last, partial page
FloorDiv(totalCount, batchSize) == totalCount \div batchSize

\* int(math.Ceil(float64(totalCount) / float64(batchSize)))
CeilDiv(totalCount, batchSize) ==
    IF totalCount % batchSize = 0 THEN totalCount \div batchSize
    ELSE totalCount \div batchSize + 1

\* syncTable: the source row count and the number of pages
CountSource(t) ==
    /\ pc[t] = "count"
    /\ \E fail \in BOOLEAN :
       IF fail
       THEN /\ notifyError(t, "ErrCount", <<Ev("count_err", 0)>>)
            /\ UNCHANGED frame
       ELSE LET totalCount == Cardinality(sourceDB[tasks[t].SourceTable].rows)
                totalPages == CeilDiv(totalCount, tasks[t].BatchSize)
            IN /\ frame' = [frame EXCEPT ![t].totalPages = totalPages, ![t].page = 0]
               /\ log' = [log EXCEPT ![t] = Append(@, Ev("count", totalCount))]
               /\ pc' = [pc EXCEPT ![t] = IF 0 < totalPages THEN "read" ELSE "cleanup"]
               /\ UNCHANGED tasks
    /\ UNCHANGED <<config, sourceDB, targetDB, observers, ticks, wg, rest>>

\* a page loop that reads the whole page whenever no floor applies
ReadPageAlways(t) ==
    /\ pc[t] = "read"
    /\ LET S == tasks[t].SourceTable
           T == tasks[t].TargetTable
           batchSize == tasks[t].BatchSize
           offset == frame[t].page * batchSize
           tablePair == getTableConfig(S)
           field == tablePair.UpdateField
           begin(recs, evs) ==
               /\ frame' = [frame EXCEPT ![t].sourceRecords = recs, ![t].attempt = 0,
                                         ![t].lastErr = FALSE, ![t].tx = targetDB[T].rows]
               /\ log' = [log EXCEPT ![t] = @ \o <<Ev("page", offset)>> \o evs]
               /\ pc' = [pc EXCEPT ![t] = "batch"]
               /\ UNCHANGED tasks
       IN \E o \in 0..2 :
          IF config.SyncMode = "full"
          THEN IF o = 2
               THEN /\ notifyError(t, "ErrRead", <<Ev("page", offset), Ev("read_err", offset)>>)
                    /\ UNCHANGED frame
               ELSE begin(OffsetLimit(Scan(sourceDB[S].rows), offset, batchSize),
                          <<Ev("read", offset)>>)
          ELSE IF tablePair.CheckMethod = "update_time" /\ field # ""
          THEN IF o = 1 \/ field \notin Range(targetDB[T].cols)
               THEN /\ notifyError(t, "ErrFloor", <<Ev("page", offset), Ev("floor_err", offset)>>)
                    /\ UNCHANGED frame
               ELSE LET lastTargetUpdate == LastUpdate(targetDB, T, field)
                    IN IF o = 2 \/ field \notin Range(sourceDB[S].cols)
                       THEN /\ notifyError(t, "ErrRead",
                                           <<Ev("page", offset), Ev("floor", lastTargetUpdate),
                                             Ev("read_err", offset)>>)
                            /\ UNCHANGED frame
                       ELSE begin(OffsetLimit(
                                    Scan({r \in sourceDB[S].rows :
                                             Val(r, field) > lastTargetUpdate}),
                                    offset, batchSize),
                                  <<Ev("floor", lastTargetUpdate), Ev("read", offset)>>)
          ELSE IF o = 2
               THEN /\ notifyError(t, "ErrRead", <<Ev("page", offset), Ev("read_err", offset)>>)
                    /\ UNCHANGED frame
               ELSE begin(OffsetLimit(Scan(sourceDB[S].rows), offset, batchSize),
                          <<Ev("read", offset)>>)
    /\ UNCHANGED <<config, sourceDB, targetDB, observers, ticks, wg, rest>>

\* syncTable, loop body up to the call of syncBatchData: the page's records.
\* o = 1: the floor query on the target fails; o = 2: the source read fails.
ReadPage(t) ==
    /\ pc[t] = "read"
    /\ LET S == tasks[t].SourceTable
           T == tasks[t].TargetTable
           batchSize == tasks[t].BatchSize
           offset == frame[t].page * batchSize
           tablePair == getTableConfig(S)
           field == tablePair.UpdateField
           begin(recs, evs) ==
               /\ frame' = [frame EXCEPT ![t].sourceRecords = recs, ![t].attempt = 0,
                                         ![t].lastErr = FALSE, ![t].tx = targetDB[T].rows]
               /\ log' = [log EXCEPT ![t] = @ \o <<Ev("page", offset)>> \o evs]
               /\ pc' = [pc EXCEPT ![t] = "batch"]
               /\ UNCHANGED tasks
       IN \E o \in 0..2 :
          IF config.SyncMode = "full"
          THEN IF o = 2
               THEN /\ notifyError(t, "ErrRead", <<Ev("page", offset), Ev("read_err", offset)>>)
                    /\ UNCHANGED frame
               ELSE begin(OffsetLimit(Scan(sourceDB[S].rows), offset, batchSize),
                          <<Ev("read", offset)>>)
          ELSE IF tablePair.CheckMethod = "update_time" /\ field # ""
          THEN IF o = 1 \/ field \notin Range(targetDB[T].cols)
               THEN /\ notifyError(t, "ErrFloor", <<Ev("page", offset), Ev("floor_err", offset)>>)
                    /\ UNCHANGED frame
               ELSE LET lastTargetUpdate == LastUpdate(targetDB, T, field)
                    IN IF o = 2 \/ field \notin Range(sourceDB[S].cols)
                       THEN /\ notifyError(t, "ErrRead",
                                           <<Ev("page", offset), Ev("floor", lastTargetUpdate),
                                             Ev("read_err", offset)>>)
                            /\ UNCHANGED frame
                       ELSE begin(OffsetLimit(
                                    Scan({r \in sourceDB[S].rows :
                                             Val(r, field) > lastTargetUpdate}),
                                    offset, batchSize),
                                  <<Ev("floor", lastTargetUpdate), Ev("read", offset)>>)
          ELSE begin(<<>>, <<>>)
    /\ UNCHANGED <<config, sourceDB, targetDB, observers, ticks, wg, rest>>

\* syncSingleRecord: INSERT ... ON DUPLICATE KEY UPDATE of every column
Upsert(rows, pk, r) == {x \in rows : Key(pk, x) # Key(pk, r)} \cup {r}

RECURSIVE UpsertAll(_, _, _, _)
UpsertAll(rows, pk, recs, n) ==
    IF n = 0 THEN rows
    ELSE Upsert(UpsertAll(rows, pk, recs, n - 1), pk, recs[n])

\* a backoff that grows by baseDelay per attempt instead of doubling
RetryDelayLinear(attempt) == Min(baseDelay * (attempt + 1), maxRetryDelay)

\* delay := baseDelay * 2^attempt, capped at maxRetryDelay
RetryDelay(attempt) == Min(baseDelay * Pow2(attempt), maxRetryDelay)

\* lastErr after a pass of the retry loop: set by a failing row, and never
\* reset to nil
LastErrAfter(lastErr, f) == lastErr \/ f > 0

\* a page loop that is left after its first page
PageDoneBreak(t, evs) ==
    /\ frame' = [frame EXCEPT ![t].page = @ + 1, ![t].sourceRecords = <<>>,
                              ![t].attempt = 0, ![t].lastErr = FALSE, ![t].tx = {}]
    /\ log' = [log EXCEPT ![t] = @ \o evs \o <<Ev("commit", frame[t].page)>>]
    /\ pc' = [pc EXCEPT ![t] = "cleanup"]
    /\ UNCHANGED tasks

\* after a page: the next iteration of the page loop, or the cleanup
PageDone(t, evs) ==
    /\ frame' = [frame EXCEPT ![t].page = @ + 1, ![t].sourceRecords = <<>>,
                              ![t].attempt = 0, ![t].lastErr = FALSE, ![t].tx = {}]
    /\ log' = [log EXCEPT ![t] = @ \o evs \o <<Ev("commit", frame[t].page)>>]
    /\ pc' = [pc EXCEPT ![t] = IF frame[t].page + 1 < frame[t].totalPages
                               THEN "read" ELSE "cleanup"]
    /\ UNCHANGED tasks

\* a page whose rows stay in the target when its attempts are exhausted
SyncBatchDataNoRollback(t) ==
    /\ pc[t] = "batch"
    /\ LET T == tasks[t].TargetTable
           records == frame[t].sourceRecords
           attempt == frame[t].attempt
       IN IF Len(records) = 0
          THEN /\ PageDone(t, <<>>)
               /\ UNCHANGED targetDB
          ELSE \E f \in 0..Len(records) :
               LET n == IF f = 0 THEN Len(records) ELSE f - 1
                   tx1 == UpsertAll(frame[t].tx, targetDB[T].pk, records, n)
                   lastErr == LastErrAfter(frame[t].lastErr, f)
                   evs == [j \in 1..n |-> Ev("upsert", j)]
                          \o (IF f > 0
                              THEN <<Ev("row_err", f), Ev("wait", RetryDelay(attempt))>>
                              ELSE <<Ev("pass_ok", attempt + 1)>>)
               IN IF ~lastErr
                  THEN /\ PageDone(t, evs)
                       /\ targetDB' = [targetDB EXCEPT ![T].rows = tx1]
                  ELSE IF attempt + 1 < retryCount
                  THEN /\ frame' = [frame EXCEPT ![t].attempt = attempt + 1,
                                                 ![t].lastErr = lastErr, ![t].tx = tx1]
                       /\ log' = [log EXCEPT ![t] = @ \o evs]
                       /\ UNCHANGED <<targetDB, tasks, pc>>
                  ELSE /\ notifyError(t, "ErrBatch", evs \o <<Ev("rollback", frame[t].page)>>)
                       /\ frame' = [frame EXCEPT ![t].attempt = attempt + 1,
                                                 ![t].lastErr = lastErr, ![t].tx = {}]
                       /\ targetDB' = [targetDB EXCEPT ![T].rows = tx1]
    /\ UNCHANGED <<config, sourceDB, observers, ticks, wg, rest>>

\* syncBatchData inside targetDB.Transaction: the empty-page return, or one
\* pass of the retry loop over the page's records. f: the record of this
\* pass whose statement fails (0: none).
SyncBatchData(t) ==
    /\ pc[t] = "batch"
    /\ LET T == tasks[t].TargetTable
           records == frame[t].sourceRecords
           attempt == frame[t].attempt
       IN IF Len(records) = 0
          THEN /\ PageDone(t, <<>>)
               /\ UNCHANGED targetDB
          ELSE \E f \in 0..Len(records) :
               LET n == IF f = 0 THEN Len(records) ELSE f - 1
                   tx1 == UpsertAll(frame[t].tx, targetDB[T].pk, records, n)
                   lastErr == LastErrAfter(frame[t].lastErr, f)
                   evs == [j \in 1..n |-> Ev("upsert", j)]
                          \o (IF f > 0
                              THEN <<Ev("row_err", f), Ev("wait", RetryDelay(attempt))>>
                              ELSE <<Ev("pass_ok", attempt + 1)>>)
               IN IF ~lastErr
                  THEN /\ PageDone(t, evs)
                       /\ targetDB' = [targetDB EXCEPT ![T].rows = tx1]
                  ELSE IF attempt + 1 < retryCount
                  THEN /\ frame' = [frame EXCEPT ![t].attempt = attempt + 1,
                                                 ![t].lastErr = lastErr, ![t].tx = tx1]
                       /\ log' = [log EXCEPT ![t] = @ \o evs]
                       /\ UNCHANGED <<targetDB, tasks, pc>>
                  ELSE /\ notifyError(t, "ErrBatch", evs \o <<Ev("rollback", frame[t].page)>>)
                       /\ frame' = [frame EXCEPT ![t].attempt = attempt + 1,
                                                 ![t].lastErr = lastErr, ![t].tx = {}]
                       /\ UNCHANGED targetDB
    /\ UNCHANGED <<config, sourceDB, observers, ticks, wg, rest>>

\* ------------------------------------------------------- drift cleanup
\* getPrimaryKey: the first column flagged PRI, "id" when none is
getPrimaryKey(db, tableName) ==
    IF Len(db[tableName].pk) = 0 THEN "id" ELSE db[tableName].pk[1]

\* an anti-join on the whole primary key (id, k)
AntiJoinKeepFullKey(rows, temp, primaryKey) ==
    {r \in rows : \E x \in temp : r.id = x.id /\ r.k = x.k}

\* DELETE t1 FROM target t1 LEFT JOIN temp t2 ON t1.pk = t2.pk WHERE t2.pk IS NULL
AntiJoinKeep(rows, temp, primaryKey) ==
    {r \in rows : \E x \in temp : Val(r, primaryKey) = Val(x, primaryKey)}

\* syncTable: cleanupTargetTable and the end of the run.
\* o = 1: getPrimaryKey fails; 2: the count fails; 3: CREATE TEMPORARY TABLE
\* fails; 4: the copy fails; 5: the DELETE fails; 0: no statement fails.
CleanupTargetTable(t) ==
    /\ pc[t] = "cleanup"
    /\ LET S == tasks[t].SourceTable
           T == tasks[t].TargetTable
           primaryKey == getPrimaryKey(targetDB, T)
           count == Cardinality(targetDB[T].rows)
           kept == AntiJoinKeep(targetDB[T].rows, sourceDB[S].rows, primaryKey)
       IN /\ frame' = [frame EXCEPT ![t].before = targetDB[T].rows]
          /\ \E o \in 0..5 :
             IF o = 1
             THEN /\ notifyError(t, "ErrCleanup", <<Ev("cleanup_err", 1)>>)
                  /\ UNCHANGED targetDB
             ELSE IF o = 2
             THEN /\ notifyError(t, "ErrCleanup", <<Ev("cleanup_err", 2)>>)
                  /\ UNCHANGED targetDB
             ELSE IF count = 0
             THEN /\ complete(t, <<Ev("cleanup_empty", 0)>>)
                  /\ UNCHANGED targetDB
             ELSE IF o = 3
             THEN /\ notifyError(t, "ErrCleanup", <<Ev("cleanup_err", 3)>>)
                  /\ UNCHANGED targetDB
             ELSE IF o = 4 \/ Len(sourceDB[S].cols) # Len(targetDB[T].cols)
             THEN /\ notifyError(t, "ErrCleanup", <<Ev("create_temp", 0), Ev("cleanup_err", 4)>>)
                  /\ UNCHANGED targetDB
             ELSE IF o = 5 \/ primaryKey \notin Range(targetDB[T].cols)
             THEN /\ notifyError(t, "ErrCleanup", <<Ev("create_temp", 0), Ev("cleanup_err", 5)>>)
                  /\ UNCHANGED targetDB
             ELSE /\ complete(t, <<Ev("create_temp", 0),
                                   Ev("delete", Cardinality(targetDB[T].rows \ kept)),
                                   Ev("cleanup_ok", 0)>>)
                  /\ targetDB' = [targetDB EXCEPT ![T].rows = kept]
    /\ UNCHANGED <<config, sourceDB, observers, ticks, wg, rest>>

\* a syncAll that returns without waiting for its workers
SyncAllReturnEarly ==
    /\ wg # {}
    /\ wg' = {}
    /\ pc' = [t \in DOMAIN tasks |-> "idle"]
    /\ UNCHANGED <<config, sourceDB, targetDB, tasks, observers, ticks, frame, log, rest>>

\* syncAll: wg.Wait() returns once every worker of the tick has returned
SyncAllReturn ==
    /\ wg # {}
    /\ \A t \in wg : pc[t] = "done"
    /\ wg' = {}
    /\ pc' = [t \in DOMAIN tasks |-> "idle"]
    /\ UNCHANGED <<config, sourceDB, targetDB, tasks, observers, ticks, frame, log, rest>>

Next ==
    \/ Tick
    \/ \E t \in DOMAIN tasks : NotifyStart(t)
    \/ \E t \in DOMAIN tasks : SyncTableSchema(t)
    \/ \E t \in DOMAIN tasks : GetAllColumns(t)
    \/ \E t \in DOMAIN tasks : NeedSync(t)
    \/ \E t \in DOMAIN tasks : CountSource(t)
    \/ \E t \in DOMAIN tasks : ReadPage(t)
    \/ \E t \in DOMAIN tasks : SyncBatchData(t)
    \/ \E t \in DOMAIN tasks : CleanupTargetTable(t)
    \/ SyncAllReturn

Spec == Init /\ [][Next]_vars

\* ----------------------------------------------------- reading the log
\* log[t] is the trace of the run of task t in the current tick (of the
\* last tick, between two ticks).
HasEv(t, e) == \E i \in 1..Len(log[t]) : log[t][i].ev = e

HasEvArg(t, e, a) == \E i \in 1..Len(log[t]) : log[t][i] = Ev(e, a)

CountEv(t, e) == Cardinality({i \in 1..Len(log[t]) : log[t][i].ev = e})

ArgsOf(s, e) ==
    LET sel == SelectSeq(s, LAMBDA x : x.ev = e)
    IN [i \in 1..Len(sel) |-> sel[i].arg]

\* the positions of the log at which a page begins, and the part of the log
\* that belongs to the page that begins at position i
PageIdx(t) == {i \in 1..Len(log[t]) : log[t][i].ev = "page"}

SegEnd(t, i) ==
    IF \E j \in PageIdx(t) : j > i
    THEN (CHOOSE j \in PageIdx(t) : j > i /\ \A h \in PageIdx(t) : h > i => j <= h) - 1
    ELSE Len(log[t])

Seg(t, i) == SubSeq(log[t], i, SegEnd(t, i))

IsOutcome(x) == x.ev \in {"row_err", "pass_ok"}

\* the outcomes of the passes over a page, in order
Outcomes(s) == SelectSeq(s, IsOutcome)

SeqHas(s, e) == \E i \in 1..Len(s) : s[i].ev = e

\* the page being applied (or applied last)
LastPageAt(t) == CHOOSE i \in PageIdx(t) : \A j \in PageIdx(t) : j <= i

PageSegment(t) == IF PageIdx(t) = {} THEN <<>> ELSE Seg(t, LastPageAt(t))

PassOutcomes(t) == Outcomes(PageSegment(t))

SegHas(t, e) == SeqHas(PageSegment(t), e)

\* the run of task t has ended
Ended(t) == HasEv(t, "OnSyncComplete") \/ HasEv(t, "OnSyncError")

\* --------------------------------------------------------------- claims

\* C1: in sync mode "full", with a source that does not change, when schema
\* repair, detection (reporting sync needed), every page and drift cleanup
\* succeed, the target's row set equals the source's row set when the status
\* becomes "completed".
C1_FullConvergence ==
    \A t \in DOMAIN tasks :
        (/\ config.SyncMode = "full"
         /\ HasEvArg(t, "detect", 1)
         /\ HasEv(t, "OnSyncComplete")
         /\ tasks[t].Status = "completed")
        => targetDB[tasks[t].TargetTable].rows = sourceDB[tasks[t].SourceTable].rows

\* C2: a page whose first two passes each hit a row failure and whose third
\* pass applies every row is committed (syncBatchData returns success, no
\* rollback, no error for the task from that page), and no wait exceeds the
\* backoff ceiling.
C2_RetrySuccess ==
    \A t \in DOMAIN tasks :
        LET ps == PassOutcomes(t)
        IN (/\ Len(ps) = 3
            /\ ps[1].ev = "row_err"
            /\ ps[2].ev = "row_err"
            /\ ps[3].ev = "pass_ok")
           => /\ SegHas(t, "commit")
              /\ ~SegHas(t, "rollback")
              /\ \A i \in 1..Len(log[t]) :
                    log[t][i].ev = "wait" => log[t][i].arg <= maxRetryDelay

Ceiling(n, b) == CHOOSE p \in 0..n : p * b >= n /\ \A q \in 0..n : q * b >= n => p <= q

SourceCount(t) == Cardinality(sourceDB[tasks[t].SourceTable].rows)

\* the offsets of the first n pages
Offsets(n, b) == [i \in 1..n |-> (i - 1) * b]

\* the run of t found that a sync is needed
Replicates(t) == HasEvArg(t, "detect", 1)

ReplicationFailed(t) ==
    \/ HasEv(t, "count_err") \/ HasEv(t, "read_err")
    \/ HasEv(t, "floor_err") \/ HasEv(t, "rollback")

CleanupSucceeded(t) == HasEv(t, "cleanup_ok") \/ HasEv(t, "cleanup_empty")

\* C5: after a successful cleanup the target contains exactly the rows of
\* the pre-cleanup target whose primary key value occurs in the source (the
\* rows present in both unchanged); when the target is empty the cleanup
\* creates no temporary table and deletes nothing.
C5_CleanupResult ==
    \A t \in DOMAIN tasks :
        CleanupSucceeded(t) =>
            LET T == tasks[t].TargetTable
                pk == targetDB[T].pk
                pre == frame[t].before
                src == sourceDB[tasks[t].SourceTable].rows
            IN /\ targetDB[T].rows = {r \in pre : \E x \in src : Key(pk, x) = Key(pk, r)}
               /\ pre = {} => ~HasEv(t, "create_temp") /\ ~HasEv(t, "delete")

\* the events of the stages
SchemaEvs == {"add_column", "add_column_err", "schema_err", "schema_ok"}
DetectEvs == {"columns_ok", "columns_err", "checkByChecksum", "checkByCount",
              "checkByUpdateTime", "query_err", "detect", "detect_err"}
PageEvs == {"count", "count_err", "page", "read", "read_err", "floor", "floor_err",
            "upsert", "row_err", "wait", "pass_ok", "commit", "rollback"}
CleanupEvs == {"create_temp", "delete", "cleanup_ok", "cleanup_empty", "cleanup_err"}

\* the log of t holds nothing of the stages in evs
NoneOf(t, evs) == \A i \in 1..Len(log[t]) : log[t][i].ev \notin evs

\* the run of t has ended with the error err: status and Error are set, the
\* observers were told, and OnSyncComplete was not called
EndedInError(t, err) ==
    /\ tasks[t].Status = "error"
    /\ tasks[t].Error = err
    /\ pc[t] \in {"done", "idle"}
    /\ log[t][Len(log[t])].ev = "OnSyncError"
    /\ ~HasEv(t, "OnSyncComplete")

\* C6: in every run the schema repair comes before the detection and before
\* any row copy; it executes one ADD COLUMN for each source column whose name
\* is absent from the target's column names and none for a column that is
\* present; when a column list cannot be obtained or an ADD COLUMN fails the
\* run ends with status "error", no row copied, and no detection,
\* replication or cleanup executed.
C6_SchemaRepairFirst ==
    \A t \in DOMAIN tasks :
        LET L == log[t]
            sourceCols == sourceDB[tasks[t].SourceTable].cols
            absent == {i \in 1..Len(sourceCols) :
                          sourceCols[i] \notin Range(frame[t].targetColNames)}
            adds == ArgsOf(L, "add_column")
        IN /\ \A i, j \in 1..Len(adds) : adds[i] = adds[j] => i = j
           /\ \A i \in 1..Len(adds) : adds[i] \in absent
           /\ HasEv(t, "schema_ok") =>
                 /\ Range(adds) = absent
                 /\ Range(sourceCols) \subseteq Range(targetDB[tasks[t].TargetTable].cols)
           /\ \A j \in 1..Len(L) :
                 L[j].ev \in DetectEvs \cup PageEvs \cup CleanupEvs \cup {"OnSyncComplete"} =>
                    /\ \E i \in 1..(j - 1) : L[i].ev = "schema_ok"
                    /\ \A i \in (j + 1)..Len(L) : L[i].ev \notin SchemaEvs
           /\ (HasEv(t, "schema_err") \/ HasEv(t, "add_column_err")) =>
                 /\ EndedInError(t, "ErrSchema")
                 /\ NoneOf(t, DetectEvs \cup PageEvs \cup CleanupEvs \cup {"schema_ok"})

\* C6 witness: the source has a column email that the target lacked; one ADD
\* COLUMN was executed, for it, and a row was copied afterwards
C6_Witness ==
    \E t \in DOMAIN tasks :
        LET adds == ArgsOf(log[t], "add_column")
        IN /\ Len(adds) = 1
           /\ sourceDB[tasks[t].SourceTable].cols[adds[1]] = "email"
           /\ "email" \notin Range(frame[t].targetColNames)
           /\ HasEv(t, "upsert")

\* the error that the detection returns when the query logged at position i
\* of the log of t has failed
DetectionError(t, i) ==
    LET L == log[t]
        q == L[i].arg
        fallback == i > 2 /\ L[i - 2].ev = "checkByUpdateTime"
    IN CASE L[i - 1].ev = "checkByCount" ->
                IF q = 1 THEN "ErrCountSource" ELSE "ErrCountTarget"
         [] L[i - 1].ev = "checkByUpdateTime" ->
                IF q = 1 THEN "ErrColumns"
                ELSE IF q = 2 THEN "ErrLastUpdateSource" ELSE "ErrLastUpdateTarget"
         [] L[i - 1].ev = "checkByChecksum" ->
                IF q = (IF fallback THEN 2 ELSE 1)
                THEN "ErrChecksumSource" ELSE "ErrChecksumTarget"

\* C7: whenever a query of the change detection fails (a count, a checksum,
\* a maximum timestamp, the column re-verification), the run ends with status
\* "error" and that error retained; it does not end "completed",
\* OnSyncComplete is not called, no page is replicated and no cleanup is run.
C7_DetectionFailureIsError ==
    \A t \in DOMAIN tasks :
        \A i \in 1..Len(log[t]) :
            log[t][i].ev = "query_err" =>
                /\ EndedInError(t, DetectionError(t, i))
                /\ tasks[t].Status # "completed"
                /\ ~HasEv(t, "detect")
                /\ HasEv(t, "detect_err")
                /\ NoneOf(t, PageEvs \cup CleanupEvs)

\* C7 witness: the maximum-timestamp query on the target has failed while
\* the two tables differ, and the run has ended in error
C7_Witness ==
    \E t \in DOMAIN tasks :
        /\ HasEv(t, "checkByUpdateTime")
        /\ HasEvArg(t, "query_err", 3)
        /\ ~HasEv(t, "checkByChecksum")
        /\ sourceDB[tasks[t].SourceTable].rows # targetDB[tasks[t].TargetTable].rows
        /\ tasks[t].Status = "error"

\* the pair of t is checked by update time, and the configured timestamp
\* column is not a column of the source table
TimestampColumnMissing(t) ==
    LET tablePair == getTableConfig(tasks[t].SourceTable)
    IN /\ tablePair.CheckMethod = "update_time"
       /\ tablePair.UpdateField # ""
       /\ tablePair.UpdateField \notin Range(sourceDB[tasks[t].SourceTable].cols)

\* the two tables of t are those the detection of this run has seen
TablesAsDetected(t) == NoneOf(t, {"commit", "delete"})

\* C8: when the pair is configured with method "update_time" and the
\* timestamp column is not among the source table's columns, the detector
\* decides by the checksum strategy and returns its result; the only errors
\* that reach the caller are those of the column listing and of the two
\* checksum queries, never one about the missing column.
C8_TimestampFallback ==
    \A t \in DOMAIN tasks :
        TimestampColumnMissing(t) =>
            LET L == log[t]
                S == tasks[t].SourceTable
                T == tasks[t].TargetTable
            IN /\ \A i \in 1..Len(L) :
                     /\ L[i].ev = "checkByUpdateTime" /\ i < Len(L) =>
                           L[i + 1] \in {Ev("checkByChecksum", 0), Ev("query_err", 1)}
                     /\ L[i].ev \in {"detect", "detect_err"} =>
                           \/ L[i - 1].ev = "checkByChecksum"
                           \/ L[i - 1].ev = "query_err"
                     /\ (L[i].ev = "detect" /\ TablesAsDetected(t)) =>
                           (L[i].arg = 1) = (ChecksumTable(sourceDB, S) # ChecksumTable(targetDB, T))
               /\ HasEv(t, "detect_err") =>
                     tasks[t].Error \in {"ErrColumns", "ErrChecksumSource", "ErrChecksumTarget"}
               /\ NoneOf(t, {"checkByCount"})

\* C8 witness: the timestamp column is missing, the detector used the
\* checksum strategy and reported that a sync is needed
C8_Witness ==
    \E t \in DOMAIN tasks :
        /\ TimestampColumnMissing(t)
        /\ HasEv(t, "checkByUpdateTime") /\ HasEv(t, "checkByChecksum")
        /\ HasEvArg(t, "detect", 1)
        /\ pc[t] = "count"

\* the events that report the failure of a stage
FailEvs == {"schema_err", "add_column_err", "columns_err", "detect_err", "count_err",
            "read_err", "floor_err", "rollback", "cleanup_err"}

\* a step of the worker of task t
WorkerStep(t) ==
    \/ NotifyStart(t) \/ SyncTableSchema(t) \/ GetAllColumns(t) \/ NeedSync(t)
    \/ CountSource(t) \/ ReadPage(t) \/ SyncBatchData(t) \/ CleanupTargetTable(t)

Running(t) == pc[t] \notin {"idle", "done"}

\* everything that belongs to task u is left as it is
Untouched(u) ==
    /\ pc'[u] = pc[u] /\ log'[u] = log[u] /\ frame'[u] = frame[u] /\ tasks'[u] = tasks[u]
    /\ sourceDB'[tasks[u].SourceTable] = sourceDB[tasks[u].SourceTable]
    /\ targetDB'[tasks[u].TargetTable] = targetDB[tasks[u].TargetTable]

\* C9, in a state: a failed stage is the last thing of its run but the error
\* notification, and leaves status "error" with the error stored; a worker
\* that has not finished can always take its next step, whatever happened to
\* the others; when the tick is over every task has its own outcome.
C9_State ==
    \A t \in DOMAIN tasks :
        /\ \A i \in 1..Len(log[t]) :
              log[t][i].ev \in FailEvs =>
                 /\ \A j \in (i + 1)..Len(log[t]) : log[t][j].ev = "OnSyncError"
                 /\ tasks[t].Status = "error" /\ tasks[t].Error # "nil"
                 /\ pc[t] \in {"done", "idle"}
        /\ HasEv(t, "OnSyncError") =>
              /\ \E i \in 1..Len(log[t]) : log[t][i].ev \in FailEvs
              /\ ~HasEv(t, "OnSyncComplete")
        /\ Running(t) => ENABLED WorkerStep(t)
        /\ (ticks > 0 /\ wg = {}) =>
              /\ Ended(t)
              /\ tasks[t].Status = (IF HasEv(t, "OnSyncError") THEN "error" ELSE "completed")

\* C9, in a step: the step of one worker changes nothing of another task
C9_Step ==
    \A t, u \in DOMAIN tasks :
        (t # u /\ Running(t) /\ log'[t] # log[t]) => Untouched(u)

\* C9: if a stage of a task's run fails, the task's status becomes "error"
\* with the error stored and no later stage of that run executes, and every
\* other task of the tick still runs its own pipeline to its own outcome,
\* unaffected by the failed task.
C9_FailureIsolation == [](C9_State) /\ [][C9_Step]_vars

\* C9 witness: in one tick a task has failed, and the other task has copied
\* its rows and has completed
C9_Witness ==
    \E t, u \in DOMAIN tasks :
        /\ t # u
        /\ tasks[t].Status = "error" /\ HasEv(t, "OnSyncError")
        /\ HasEv(u, "upsert") /\ HasEv(u, "OnSyncComplete")
        /\ tasks[u].Status = "completed"

\* the stage an event of the log belongs to: 0 start, 1 schema repair,
\* 2 change detection, 3 page replication, 4 drift cleanup, 5 status update
Stage(e) ==
    CASE e = "OnSyncStart" -> 0
      [] e \in SchemaEvs -> 1
      [] e \in DetectEvs -> 2
      [] e \in PageEvs -> 3
      [] e \in CleanupEvs -> 4
      [] OTHER -> 5

\* C10: in every run the stages occur in the order schema repair, change
\* detection, page replication (pages in increasing page number), drift
\* cleanup, status update; a stage starts only when the previous one has
\* finished with success; the drift cleanup runs at most once, and only after
\* every page of the run has been committed.
C10_StageOrder ==
    \A t \in DOMAIN tasks :
        LET L == log[t]
            pages == ArgsOf(L, "page")
            needed == Ceiling(SourceCount(t), tasks[t].BatchSize)
        IN /\ \A i, j \in 1..Len(L) : i < j => Stage(L[i].ev) <= Stage(L[j].ev)
           /\ Len(L) > 0 => L[1].ev = "OnSyncStart"
           /\ \A j \in 1..Len(L) :
                 /\ Stage(L[j].ev) = 2 => \E i \in 1..(j - 1) : L[i].ev = "schema_ok"
                 /\ Stage(L[j].ev) = 3 => \E i \in 1..(j - 1) : L[i] = Ev("detect", 1)
                 /\ L[j].ev = "page" =>
                       /\ L[j].arg = 0 => L[j - 1].ev = "count"
                       /\ L[j].arg > 0 => L[j - 1] = Ev("commit", (L[j].arg \div tasks[t].BatchSize) - 1)
                 /\ Stage(L[j].ev) = 4 => \E i \in 1..(j - 1) : L[i].ev = "count"
                 /\ L[j].ev = "OnSyncComplete" =>
                       \/ L[j - 1] = Ev("detect", 0)
                       \/ L[j - 1].ev \in {"cleanup_ok", "cleanup_empty", "OnSyncComplete"}
           /\ \A i, j \in 1..Len(pages) : i < j => pages[i] < pages[j]
           /\ CountEv(t, "cleanup_ok") + CountEv(t, "cleanup_empty") + CountEv(t, "cleanup_err") <= 1
           /\ CountEv(t, "create_temp") <= 1 /\ CountEv(t, "delete") <= 1
           /\ (pc[t] = "cleanup" \/ ~NoneOf(t, CleanupEvs)) =>
                 /\ CountEv(t, "commit") = needed
                 /\ Len(pages) = needed
                 /\ ~HasEv(t, "rollback") /\ ~HasEv(t, "read_err") /\ ~HasEv(t, "floor_err")

\* C10 witness: a run of two pages, committed one after the other, then a
\* cleanup that deleted a row, then "completed"
C10_Witness ==
    \E t \in DOMAIN tasks :
        /\ ArgsOf(log[t], "commit") = <<0, 1>>
        /\ \E i \in 1..Len(log[t]) : log[t][i].ev = "delete" /\ log[t][i].arg > 0
        /\ HasEv(t, "OnSyncComplete")
        /\ tasks[t].Status = "completed"

\* C11, in a state: outside syncAll no worker is running, and the workers that
\* run are the ones the current tick has launched
C11_State ==
    /\ wg = {} => \A t \in DOMAIN tasks : ~Running(t)
    /\ \A t \in DOMAIN tasks : Running(t) => t \in wg /\ ticks > 0

\* C11, in a step: syncAll returns only when every worker it launched has
\* finished, and a tick starts only when syncAll has returned and no worker
\* of an earlier tick is left running
C11_Step ==
    /\ (wg # {} /\ wg' = {}) => \A t \in wg : pc[t] = "done"
    /\ ticks' # ticks =>
          /\ wg = {} /\ wg' = DOMAIN tasks
          /\ \A t \in DOMAIN tasks : ~Running(t)
          /\ ticks' = ticks + 1

\* C11: syncAll returns only after every worker it launched has finished and
\* the next tick starts only after syncAll has returned, so two runs of one
\* task are never in progress together and workers of two ticks never run
\* concurrently.
C11_NoOverlap == [](C11_State) /\ [][C11_Step]_vars

\* C11 witness: the second tick is under way, with a worker in its pipeline,
\* after a first tick in which that task has run to its end
C11_Witness ==
    \E t \in DOMAIN tasks :
        /\ ticks = 2 /\ t \in wg
        /\ pc[t] \in {"detect", "count", "read", "batch", "cleanup"}
        /\ tasks[t].Status \in {"completed", "error"}

\* the workers of the tick in progress that run the pipeline of pair p
WorkersOf(p) ==
    {t \in wg : tasks[t].SourceTable = p.Source /\ tasks[t].TargetTable = p.Target}

\* C12: in each tick exactly one worker is launched for every configured
\* table pair (as many workers as pairs), and it runs the pipeline from that
\* pair's source table to that pair's target table.
C12_OneWorkerPerPair ==
    wg # {} =>
        /\ Cardinality(wg) = Len(config.TablePairs)
        /\ \A i \in 1..Len(config.TablePairs) :
              Cardinality(WorkersOf(config.TablePairs[i])) = 1

\* the notifications of kind e in the run of task t, as the observers that
\* received them, in the order of the calls
Notified(t, e) == ArgsOf(log[t], e)

\* the observers in registration order
InOrder == [i \in 1..observers |-> i]

\* C13: in every run each registered observer receives exactly one
\* OnSyncStart and afterwards exactly one of OnSyncComplete or OnSyncError
\* (never both, never neither); within a notification the observers are
\* called in registration order on the worker, which takes its next step only
\* after every callback has returned.
C13_ObserverProtocol ==
    \A t \in DOMAIN tasks :
        LET L == log[t]
            s == Notified(t, "OnSyncStart")
            c == Notified(t, "OnSyncComplete")
            e == Notified(t, "OnSyncError")
            n == Len(c) + Len(e)
        IN /\ pc[t] = "start" => L = <<>>
           /\ pc[t] \notin {"idle", "start"} =>
                 /\ s = InOrder
                 /\ \A i \in 1..observers : L[i] = Ev("OnSyncStart", i)
           /\ Running(t) => c = <<>> /\ e = <<>>
           /\ (pc[t] = "done" \/ (pc[t] = "idle" /\ ticks > 0)) =>
                 /\ s = InOrder
                 /\ (c = InOrder /\ e = <<>>) \/ (c = <<>> /\ e = InOrder)
                 /\ \A i \in (Len(L) - n + 1)..Len(L) :
                       L[i].ev \in {"OnSyncComplete", "OnSyncError"}

\* C13 witness: with two observers registered, one task's run has ended with
\* an error and another's with success, each after its start notifications
C13_Witness ==
    /\ observers = 2
    /\ \E t, u \in DOMAIN tasks :
          /\ Notified(t, "OnSyncStart") = <<1, 2>> /\ Notified(t, "OnSyncError") = <<1, 2>>
          /\ Notified(u, "OnSyncStart") = <<1, 2>> /\ Notified(u, "OnSyncComplete") = <<1, 2>>
          /\ pc[t] = "done" /\ pc[u] = "done"

\* ------------------------------------------- the loop and its cancellation
\* the state of the service and of its workers
service == <<config, sourceDB, targetDB, tasks, observers, ticks, wg, pc, frame, log>>

\* the state of the locks and of the goroutines around the workers
conc == <<mutex, smutex, iter, pending, reader, adder, written, race>>

\* the caller of StartSync cancels the context it has supplied
CancelCtx ==
    /\ ctx = "live"
    /\ ctx' = "done"
    /\ UNCHANGED <<service, sctx, returned, conc, comparer, plan, applied, cmp, conns, bench, cmd>>

\* Stop: s.cancel(), which cancels the context made by NewSyncService
Stop ==
    /\ sctx = "live"
    /\ sctx' = "done"
    /\ UNCHANGED <<service, ctx, returned, conc, comparer, plan, applied, cmp, conns, bench, cmd>>

\* a StartSync that takes the case ctx.Done() while syncAll is still waiting
StartSyncReturnPreempt ==
    /\ ~returned
    /\ ctx = "done"
    /\ returned' = TRUE
    /\ UNCHANGED <<service, ctx, sctx, conc, comparer, plan, applied, cmp, conns, bench, cmd>>

\* StartSync, case <-ctx.Done(): return nil. The select is reached only
\* between two ticks, when syncAll has returned.
StartSyncReturn ==
    /\ ~returned
    /\ wg = {}
    /\ ctx = "done"
    /\ returned' = TRUE
    /\ UNCHANGED <<service, ctx, sctx, conc, comparer, plan, applied, cmp, conns, bench, cmd>>

\* a service of two pairs whose StartSync was given a context that the caller
\* can cancel, and on which Stop can be called
InitStop == InitTwo /\ InitCommon /\ InitComparer

NextStop ==
    \/ Next
    \/ CancelCtx
    \/ Stop
    \/ StartSyncReturn

SpecStop == InitStop /\ [][NextStop]_vars

\* every worker goroutine is scheduled and every statement returns; wg.Wait()
\* returns when the counter is zero; a select whose ctx.Done() case is ready
\* again and again takes it in the end (the choice among ready cases is
\* uniformly random)
LiveStop ==
    /\ SpecStop
    /\ WF_vars(\E t \in DOMAIN tasks : WorkerStep(t))
    /\ WF_vars(SyncAllReturn)
    /\ SF_vars(StartSyncReturn)

\* C14, in a state: StartSync has not returned while a tick is in flight, and
\* a worker of a tick in flight goes on with its pipeline whether or not the
\* context is cancelled
C14_State ==
    /\ returned => wg = {} /\ ctx = "done" /\ \A t \in DOMAIN tasks : ~Running(t)
    /\ \A t \in DOMAIN tasks : Running(t) => ~returned /\ ENABLED WorkerStep(t)

\* C14, in a step: StartSync returns only when no tick is in flight, every
\* worker of the last tick having run to completion or failure; the
\* cancellation itself changes nothing of the service or of its workers
C14_Step ==
    /\ (returned' /\ ~returned) =>
          /\ wg = {} /\ ctx = "done"
          /\ \A t \in DOMAIN tasks : ~Running(t) /\ (ticks > 0 => Ended(t))
          /\ UNCHANGED service
    /\ ctx' # ctx => UNCHANGED service /\ UNCHANGED returned

C15_StopStopsLoop == [][(sctx = "done" /\ ctx = "live") => ticks' = ticks]_vars

\* --------------------------------- locks and goroutines, statement by statement
\* In this part a step is one statement of StartSync, syncAll, notifyError,
\* the end of syncTable or AddSyncTask; the pipeline between notifyStart and
\* the end of syncTable is one step that yields its result (nil or an error).

\* what these statements never touch
fixed == <<config, sourceDB, targetDB, observers, frame, ctx, sctx, returned,
           comparer, plan, applied, cmp, conns, bench, cmd>>

\* the runtime has not stopped the program
Alive == race # "fatal"

\* the results with which the pipeline of syncTable can end
RunResults == {"nil", "ErrSchema", "ErrCleanup"}

\* the table pair a caller registers while the service runs
NewSource == "s2"
NewTarget == "t2"

ExtendWith(f, key, v) == [x \in (DOMAIN f) \cup {key} |-> IF x = key THEN v ELSE f[x]]

\* a range over the registry that holds the service's read lock
SyncAllRangeLocked ==
    /\ Alive /\ ~returned /\ iter.at = "select" /\ ticks < MaxTicks
    /\ smutex = "free"
    /\ smutex' = "syncAll"
    /\ ticks' = ticks + 1
    /\ iter' = [at |-> "range", todo |-> DOMAIN tasks]
    /\ pc' = [t \in DOMAIN tasks |-> "idle"]
    /\ log' = [t \in DOMAIN tasks |-> <<>>]
    /\ UNCHANGED <<fixed, tasks, wg, mutex, pending, reader, adder, written, race>>

\* StartSync, case <-ticker.C: syncAll begins its range over s.tasks, with no
\* lock taken
SyncAllRange ==
    /\ Alive /\ ~returned /\ iter.at = "select" /\ ticks < MaxTicks
    /\ ticks' = ticks + 1
    /\ iter' = [at |-> "range", todo |-> DOMAIN tasks]
    /\ pc' = [t \in DOMAIN tasks |-> "idle"]
    /\ log' = [t \in DOMAIN tasks |-> <<>>]
    /\ UNCHANGED <<fixed, tasks, wg, mutex, smutex, pending, reader, adder, written, race>>

\* syncAll: the range produces a task; wg.Add(1) and go func(t){...}(task)
SyncAllGo(t) ==
    /\ Alive /\ iter.at = "range" /\ t \in iter.todo
    /\ iter' = [iter EXCEPT !.todo = @ \ {t}]
    /\ wg' = wg \cup {t}
    /\ pc' = [pc EXCEPT ![t] = "start"]
    /\ UNCHANGED <<fixed, tasks, ticks, log, mutex, smutex, pending, reader, adder, written, race>>

\* syncAll: the range is exhausted, wg.Wait() is next
SyncAllRangeEnd ==
    /\ Alive /\ iter.at = "range" /\ iter.todo = {}
    /\ iter' = [iter EXCEPT !.at = "wait"]
    /\ UNCHANGED <<fixed, tasks, ticks, wg, pc, log, mutex, smutex, pending, reader, adder, written, race>>

\* syncAll: wg.Wait() returns, and StartSync is back at its select
SyncAllWait ==
    /\ Alive /\ iter.at = "wait"
    /\ \A t \in wg : pc[t] = "done"
    /\ iter' = [iter EXCEPT !.at = "select"]
    /\ wg' = {}
    /\ pc' = [t \in DOMAIN tasks |-> "idle"]
    /\ UNCHANGED <<fixed, tasks, ticks, log, mutex, smutex, pending, reader, adder, written, race>>

\* syncTable: s.notifyStart(task)
WorkerStart(t) ==
    /\ Alive /\ pc[t] = "start"
    /\ log' = [log EXCEPT ![t] = @ \o [i \in 1..observers |-> Ev("OnSyncStart", i)]]
    /\ pc' = [pc EXCEPT ![t] = "run"]
    /\ UNCHANGED <<fixed, tasks, ticks, wg, mutex, smutex, iter, pending, reader, adder, written, race>>

\* syncTable: the pipeline ends with an error, which goes to notifyError, or
\* without one, which leads to the lines that set "completed"
WorkerRun(t) ==
    /\ Alive /\ pc[t] = "run"
    /\ \E err \in RunResults :
          /\ pending' = [pending EXCEPT ![t] = err]
          /\ pc' = [pc EXCEPT ![t] = IF err = "nil" THEN "cLock" ELSE "eLock"]
    /\ UNCHANGED <<fixed, tasks, ticks, wg, log, mutex, smutex, iter, reader, adder, written, race>>

\* task.mutex.Lock(): waits until no reader and no writer holds the mutex
TaskMutexLock(t) ==
    /\ Alive /\ pc[t] \in {"eLock", "cLock"}
    /\ ~mutex[t].w /\ mutex[t].r = 0
    /\ mutex' = [mutex EXCEPT ![t].w = TRUE]
    /\ pc' = [pc EXCEPT ![t] = IF pc[t] = "eLock" THEN "eError" ELSE "cStatus"]
    /\ UNCHANGED <<fixed, tasks, ticks, wg, log, smutex, iter, pending, reader, adder, written, race>>

\* a notifyError that gives the mutex back right after it has written Error
WriteErrorUnlock(t) ==
    /\ Alive /\ pc[t] = "eError"
    /\ tasks' = [tasks EXCEPT ![t].Error = pending[t]]
    /\ written' = [written EXCEPT ![t].Error = ticks]
    /\ mutex' = [mutex EXCEPT ![t].w = FALSE]
    /\ pc' = [pc EXCEPT ![t] = "eStatus"]
    /\ UNCHANGED <<fixed, ticks, wg, log, smutex, iter, pending, reader, adder, race>>

\* notifyError: task.Error = err
WriteError(t) ==
    /\ Alive /\ pc[t] = "eError"
    /\ tasks' = [tasks EXCEPT ![t].Error = pending[t]]
    /\ written' = [written EXCEPT ![t].Error = ticks]
    /\ pc' = [pc EXCEPT ![t] = "eStatus"]
    /\ UNCHANGED <<fixed, ticks, wg, log, mutex, smutex, iter, pending, reader, adder, race>>

\* notifyError: task.Status = "error"; syncTable: task.Status = "completed"
WriteStatus(t) ==
    /\ Alive /\ pc[t] \in {"eStatus", "cStatus"}
    /\ tasks' = [tasks EXCEPT ![t].Status = IF pc[t] = "eStatus" THEN "error" ELSE "completed"]
    /\ written' = [written EXCEPT ![t].Status = ticks]
    /\ pc' = [pc EXCEPT ![t] = IF pc[t] = "eStatus" THEN "eUnlock" ELSE "cUnlock"]
    /\ UNCHANGED <<fixed, ticks, wg, log, mutex, smutex, iter, pending, reader, adder, race>>

\* task.mutex.Unlock()
TaskMutexUnlock(t) ==
    /\ Alive /\ pc[t] \in {"eUnlock", "cUnlock"}
    /\ mutex' = [mutex EXCEPT ![t].w = FALSE]
    /\ pc' = [pc EXCEPT ![t] = IF pc[t] = "eUnlock" THEN "eNotify" ELSE "cNotify"]
    /\ UNCHANGED <<fixed, tasks, ticks, wg, log, smutex, iter, pending, reader, adder, written, race>>

\* notifyError: the loop over the observers; syncTable: s.notifyComplete(task)
WorkerNotifyEnd(t) ==
    /\ Alive /\ pc[t] \in {"eNotify", "cNotify"}
    /\ log' = [log EXCEPT ![t] = @ \o
                   [i \in 1..observers |->
                       Ev(IF pc[t] = "eNotify" THEN "OnSyncError" ELSE "OnSyncComplete", i)]]
    /\ pending' = [pending EXCEPT ![t] = "nil"]
    /\ pc' = [pc EXCEPT ![t] = "done"]
    /\ UNCHANGED <<fixed, tasks, ticks, wg, mutex, smutex, iter, reader, adder, written, race>>

\* a reader of the status of task t: task.mutex.RLock()
ReaderRLock(t) ==
    /\ Alive /\ reader.pc = "idle"
    /\ ~mutex[t].w
    /\ mutex' = [mutex EXCEPT ![t].r = @ + 1]
    /\ reader' = [IdleReader EXCEPT !.pc = "locked", !.t = t]
    /\ UNCHANGED <<service, ctx, sctx, returned, comparer, plan, applied, cmp, conns, bench, cmd, smutex, iter, pending, adder, written, race>>

\* the reader reads task.Status
ReaderReadStatus ==
    /\ Alive /\ reader.pc = "locked" /\ reader.Status = "unread"
    /\ reader' = [reader EXCEPT !.Status = tasks[reader.t].Status,
                                !.statusRun = written[reader.t].Status]
    /\ UNCHANGED <<service, ctx, sctx, returned, comparer, plan, applied, cmp, conns, bench, cmd, mutex, smutex, iter, pending, adder, written, race>>

\* the reader reads task.Error
ReaderReadError ==
    /\ Alive /\ reader.pc = "locked" /\ reader.Error = "unread"
    /\ reader' = [reader EXCEPT !.Error = tasks[reader.t].Error,
                                !.errorRun = written[reader.t].Error]
    /\ UNCHANGED <<service, ctx, sctx, returned, comparer, plan, applied, cmp, conns, bench, cmd, mutex, smutex, iter, pending, adder, written, race>>

\* the reader: task.mutex.RUnlock()
ReaderRUnlock ==
    /\ Alive /\ reader.pc = "locked"
    /\ reader.Status # "unread" /\ reader.Error # "unread"
    /\ mutex' = [mutex EXCEPT ![reader.t].r = @ - 1]
    /\ reader' = IdleReader
    /\ UNCHANGED <<service, ctx, sctx, returned, comparer, plan, applied, cmp, conns, bench, cmd, smutex, iter, pending, adder, written, race>>

\* AddSyncTask: s.mutex.Lock()
AddSyncTaskLock ==
    /\ Alive /\ adder = "idle"
    /\ smutex = "free"
    /\ smutex' = "AddSyncTask"
    /\ adder' = "write"
    /\ UNCHANGED <<service, ctx, sctx, returned, comparer, plan, applied, cmp, conns, bench, cmd, mutex, iter, pending, reader, written, race>>

\* AddSyncTask: s.tasks[sourceTable] = &SyncTask{...}. When the range loop of
\* syncAll is between two of its reads of the map, this write is
\* unsynchronised with them: the runtime stops the program ("concurrent map
\* iteration and map write"), or it does not notice, and the range then
\* produces the new entry or does not.
AddSyncTaskWrite ==
    /\ Alive /\ adder = "write"
    /\ tasks' = AddSyncTask(tasks, config, NewSource, NewTarget)
    /\ pc' = ExtendWith(pc, NewSource, "idle")
    /\ frame' = ExtendWith(frame, NewSource, EmptyFrame)
    /\ log' = ExtendWith(log, NewSource, <<>>)
    /\ mutex' = ExtendWith(mutex, NewSource, FreeMutex)
    /\ pending' = ExtendWith(pending, NewSource, "nil")
    /\ written' = ExtendWith(written, NewSource, NeverWritten)
    /\ IF iter.at = "range"
       THEN \E outcome \in {"fatal", "produced", "skipped"} :
              /\ race' = IF outcome = "fatal" THEN "fatal" ELSE "undetected"
              /\ iter' = IF outcome = "produced"
                         THEN [iter EXCEPT !.todo = @ \cup {NewSource}]
                         ELSE iter
       ELSE UNCHANGED <<race, iter>>
    /\ adder' = "unlock"
    /\ UNCHANGED <<config, sourceDB, targetDB, observers, ctx, sctx, returned,
                   comparer, plan, applied, cmp, conns, bench, cmd, ticks, wg, smutex, reader>>

\* AddSyncTask: the deferred s.mutex.Unlock()
AddSyncTaskUnlock ==
    /\ Alive /\ adder = "unlock"
    /\ smutex' = "free"
    /\ adder' = "done"
    /\ UNCHANGED <<service, ctx, sctx, returned, comparer, plan, applied, cmp, conns, bench, cmd, mutex, iter, pending, reader, written, race>>

\* a service of one pair, its tables empty
InitConc ==
    /\ config = [BatchSize |-> 1, SyncMode |-> "full",
                 TablePairs |-> <<Pair("s1", "t1", "checksum", "")>>]
    /\ sourceDB = [n \in {"s1"} |-> Table(BaseCols, <<"id">>, {})]
    /\ targetDB = [n \in {"t1"} |-> Table(BaseCols, <<"id">>, {})]
    /\ InitCommon
    /\ InitComparer

NextConc ==
    \/ SyncAllRange
    \/ \E t \in DOMAIN tasks : SyncAllGo(t)
    \/ SyncAllRangeEnd
    \/ SyncAllWait
    \/ \E t \in DOMAIN tasks : WorkerStart(t)
    \/ \E t \in DOMAIN tasks : WorkerRun(t)
    \/ \E t \in DOMAIN tasks : TaskMutexLock(t)
    \/ \E t \in DOMAIN tasks : WriteError(t)
    \/ \E t \in DOMAIN tasks : WriteStatus(t)
    \/ \E t \in DOMAIN tasks : TaskMutexUnlock(t)
    \/ \E t \in DOMAIN tasks : WorkerNotifyEnd(t)
    \/ \E t \in DOMAIN tasks : ReaderRLock(t)
    \/ ReaderReadStatus
    \/ ReaderReadError
    \/ ReaderRUnlock
    \/ AddSyncTaskLock
    \/ AddSyncTaskWrite
    \/ AddSyncTaskUnlock

SpecConc == InitConc /\ [][NextConc]_vars

\* the worker of t is between task.mutex.Lock() and task.mutex.Unlock()
InCritical(t) == pc[t] \in {"eError", "eStatus", "eUnlock", "cStatus", "cUnlock"}

\* the reader has read both fields under its read lock
HasRead == reader.pc = "locked" /\ reader.Status # "unread" /\ reader.Error # "unread"

\* C16, in a state: the worker holds the task's mutex exclusively from before
\* its first write until after its last; Error and Status of a failed run
\* are written in one critical section; outside a critical section, and in
\* what a reader reads under the read lock, status "error" comes with the
\* Error of the failure that set it, never with an older one
C16_State ==
    /\ \A t \in DOMAIN tasks :
          /\ InCritical(t) <=> mutex[t].w
          /\ mutex[t].w => mutex[t].r = 0
          /\ pc[t] \in {"eStatus", "eUnlock"} =>
                tasks[t].Error = pending[t] /\ written[t].Error = ticks
          /\ (~mutex[t].w /\ tasks[t].Status = "error") =>
                tasks[t].Error # "nil" /\ written[t].Error = written[t].Status
    /\ (HasRead /\ reader.Status = "error") =>
          /\ reader.Error # "nil"
          /\ ~(reader.errorRun < reader.statusRun)

\* C16, in a step: Status and Error of a registered task are written only by
\* a worker that holds the task's mutex, with no reader inside, and keeps it
C16_Step ==
    \A t \in DOMAIN tasks :
        (tasks'[t] # tasks[t] \/ written'[t] # written[t]) =>
            /\ mutex[t].w /\ mutex[t].r = 0
            /\ mutex'[t].w

\* C16: after a task is registered every write to its Status or Error is
\* made while holding the task's mutex exclusively, and Status and Error of
\* a failed run are written inside one critical section, so a reader holding
\* the read lock never sees status "error" with an Error that predates that
\* failure.
C16_TaskLock == [](C16_State) /\ [][C16_Step]_vars

\* C16 witness: the task failed in the first tick; in the second tick a
\* reader holds the read lock and has read "error" with the first failure's
\* Error, while the worker of the second run waits for the mutex in
\* notifyError
C16_Witness ==
    /\ HasRead /\ reader.Status = "error" /\ reader.statusRun = 1
    /\ ticks = 2
    /\ pc[reader.t] = "eLock" /\ pending[reader.t] # "nil"

\* C17, in a state: the range loop of syncAll holds no lock of the service,
\* so a call of AddSyncTask is not kept out while the loop runs: it can take
\* the service's mutex and, holding it, write the registry; a race has been
\* recorded only for such a write
C17_State ==
    /\ iter.at = "range" => smutex # "syncAll"
    /\ (Alive /\ iter.at = "range" /\ adder = "idle") => ENABLED AddSyncTaskLock
    /\ adder \in {"write", "unlock"} <=> smutex = "AddSyncTask"
    /\ (Alive /\ adder = "write") => ENABLED AddSyncTaskWrite
    /\ race # "none" => NewSource \in DOMAIN tasks /\ adder \in {"unlock", "done"}

\* C17, in a step: the registry is written only under the service's mutex,
\* and such a write is a race exactly when the range loop is in progress
C17_Step ==
    /\ tasks' # tasks /\ DOMAIN tasks' # DOMAIN tasks => smutex = "AddSyncTask"
    /\ DOMAIN tasks' # DOMAIN tasks => (race' # "none" <=> iter.at = "range")
    /\ race' # race => DOMAIN tasks' # DOMAIN tasks

\* C17: AddSyncTask writes the registry under the service-level lock, but
\* syncAll iterates the registry without that lock, so a call of AddSyncTask
\* made while a tick is in progress can write the map while it is being
\* iterated.
C17_RegistryRace == [](C17_State) /\ [][C17_Step]_vars

\* C17 witness: the registry was written by AddSyncTask, which held the
\* service's mutex, while syncAll was in its range loop, a worker of the tick
\* being already launched
C17_Witness ==
    /\ race = "undetected" /\ adder = "unlock" /\ smutex = "AddSyncTask"
    /\ iter.at = "range"
    /\ wg # {}

\* C18, in a state: whatever the statuses of the tasks, the loop that has not
\* returned can start its next tick once syncAll has returned; a task whose
\* status is "error" from an earlier tick runs like any other; StartSync has
\* returned only on a cancelled context
C18_State ==
    /\ (~returned /\ wg = {} /\ ticks < MaxTicks) => ENABLED Tick
    /\ \A t \in DOMAIN tasks : Running(t) => ENABLED WorkerStep(t)
    /\ \A t \in DOMAIN tasks :
          (pc[t] \notin {"idle", "start"}) => HasEv(t, "OnSyncStart")
    /\ \A t \in DOMAIN tasks :
          (pc[t] \notin {"idle", "start", "schema"}) =>
              (HasEv(t, "schema_ok") \/ HasEv(t, "schema_err") \/ HasEv(t, "add_column_err"))
    /\ returned => ctx = "done"

\* C18, in a step: a tick launches a worker, at the start of the pipeline, for
\* every task, the ones with status "error" included, and leaves the
\* statuses as they are; nothing but the case ctx.Done() ends the loop
C18_Step ==
    /\ ticks' # ticks =>
          /\ wg' = DOMAIN tasks
          /\ \A t \in DOMAIN tasks : pc'[t] = "start" /\ log'[t] = <<>>
          /\ tasks' = tasks
    /\ returned' # returned => ctx = "done" /\ tasks' = tasks

\* C18: a task that ended a tick with status "error" is run again, from
\* schema repair, on the next tick, and the loop keeps ticking after any
\* number of task errors, until cancellation.
C18_ErrorsNeverStopLoop == [](C18_State) /\ [][C18_Step]_vars

\* C18 witness: in the second tick a task that ended the first tick with
\* status "error" has been through schema repair again, while the other task
\* of the service ended the first tick in error as well
C18_Witness ==
    /\ ticks = 2 /\ ~returned
    /\ \E t, u \in DOMAIN tasks :
          /\ t # u
          /\ tasks[t].Status = "error" /\ pc[t] = "columns" /\ HasEv(t, "schema_ok")
          /\ tasks[u].Status = "error"

\* ------------------------------------------------- structure comparison
\* A table in a database's catalog: Columns in ordinal position, each with
\* Name, DataType (COLUMN_TYPE), IsNullable, DefaultValue (a NullString) and
\* Extra (the set of modifier phrases of the EXTRA text); Indexes, the
\* secondary indexes; PrimaryKey, the key's column names in key order (<<>>
\* when the table has none).

NullString(valid, str) == [Valid |-> valid, String |-> str]

\* strings.Contains(col.Extra, phrase)
Contains(extra, phrase) == phrase \in extra

\* COLUMN_KEY as the catalog reports it for a column of table db
ColumnKey(db, name) ==
    IF name \in Range(db.PrimaryKey) THEN "PRI"
    ELSE IF \E idx \in db.Indexes :
               idx.Columns[1] = name /\ idx.NonUnique = 0 /\ Len(idx.Columns) = 1
         THEN "UNI"
    ELSE IF \E idx \in db.Indexes : idx.Columns[1] = name THEN "MUL"
    ELSE ""

\* getTableStructure, the column loop: one ColumnModel per catalog row
ColumnModel(db, i) ==
    LET col == db.Columns[i]
    IN [Name |-> col.Name, DataType |-> col.DataType, IsNullable |-> col.IsNullable,
        ColumnKey |-> ColumnKey(db, col.Name), DefaultValue |-> col.DefaultValue,
        Extra |-> col.Extra,
        OnUpdate |-> IF Contains(col.Extra, "on update CURRENT_TIMESTAMP")
                     THEN NullString(TRUE, "CURRENT_TIMESTAMP")
                     ELSE NullString(FALSE, "")]

\* getTableStructure: the TableModel of a table. The primary key is made of
\* the columns whose key is PRI, in the order of the column loop; a nil
\* PrimaryKey is <<>>, a key is <<[Name, Columns]>>. The statistics rows of
\* PRIMARY are skipped.
getTableStructure(db, tableName) ==
    LET cols == [i \in 1..Len(db.Columns) |-> ColumnModel(db, i)]
        pri == SelectSeq(cols, LAMBDA c : c.ColumnKey = "PRI")
    IN [Name |-> tableName,
        Columns |-> cols,
        Indexes |-> db.Indexes,
        PrimaryKey |-> IF pri = <<>> THEN <<>>
                       ELSE <<[Name |-> "PRIMARY",
                               Columns |-> [i \in 1..Len(pri) |-> pri[i].Name]]>>]

\* a comparison of the defaults that takes two present defaults for different
\* when they are equal
columnsAreDifferentSameDefault(source, target) ==
    \/ source.DataType # target.DataType
    \/ source.IsNullable # target.IsNullable
    \/ source.Extra # target.Extra
    \/ source.DefaultValue.Valid # target.DefaultValue.Valid
    \/ /\ source.DefaultValue.Valid /\ target.DefaultValue.Valid
       /\ source.DefaultValue.String = target.DefaultValue.String
    \/ source.OnUpdate.Valid # target.OnUpdate.Valid
    \/ /\ source.OnUpdate.Valid /\ target.OnUpdate.Valid
       /\ source.OnUpdate.String # target.OnUpdate.String

columnsAreDifferent(source, target) ==
    \/ source.DataType # target.DataType
    \/ source.IsNullable # target.IsNullable
    \/ source.Extra # target.Extra
    \/ source.DefaultValue.Valid # target.DefaultValue.Valid
    \/ /\ source.DefaultValue.Valid /\ target.DefaultValue.Valid
       /\ source.DefaultValue.String # target.DefaultValue.String
    \/ source.OnUpdate.Valid # target.OnUpdate.Valid
    \/ /\ source.OnUpdate.Valid /\ target.OnUpdate.Valid
       /\ source.OnUpdate.String # target.OnUpdate.String

\* a comparison of indexes that takes the columns as a set
indexesAreDifferentUnordered(source, target) ==
    \/ source.NonUnique # target.NonUnique
    \/ source.IndexType # target.IndexType
    \/ Range(source.Columns) # Range(target.Columns)

indexesAreDifferent(source, target) ==
    \/ source.NonUnique # target.NonUnique
    \/ source.IndexType # target.IndexType
    \/ Len(source.Columns) # Len(target.Columns)
    \/ \E i \in 1..Len(source.Columns) : source.Columns[i] # target.Columns[i]

primaryKeysAreDifferent(source, target) ==
    \/ Len(source.Columns) # Len(target.Columns)
    \/ \E i \in 1..Len(source.Columns) : source.Columns[i] # target.Columns[i]

\* the statement of generateAddColumnSQL and generateModifyColumnSQL, clause
\* by clause: the verb, then NOT NULL, DEFAULT (CURRENT_TIMESTAMP bare, any
\* other default quoted), ON UPDATE CURRENT_TIMESTAMP and AUTO_INCREMENT when
\* the column has them
ColumnSQL(verb, tableName, column) ==
    [verb |-> verb, table |-> tableName, name |-> column.Name, type |-> column.DataType,
     notNull |-> column.IsNullable = "NO",
     default |-> IF ~column.DefaultValue.Valid THEN "none"
                 ELSE IF column.DefaultValue.String = "CURRENT_TIMESTAMP" THEN "bare"
                 ELSE "quoted",
     literal |-> IF column.DefaultValue.Valid THEN column.DefaultValue.String ELSE "",
     onUpdate |-> column.OnUpdate.Valid /\ column.OnUpdate.String = "CURRENT_TIMESTAMP",
     autoIncrement |-> Contains(column.Extra, "auto_increment")]

generateAddColumnSQL(tableName, column) == ColumnSQL("ADD COLUMN", tableName, column)

generateModifyColumnSQL(tableName, column) == ColumnSQL("MODIFY COLUMN", tableName, column)

\* "CREATE %s INDEX `%s` ON `%s` (%s) USING %s" with %s = UNIQUE or INDEX:
\* words are the words between CREATE and the index name
generateAddIndexSQL(tableName, index) ==
    [verb |-> "CREATE",
     words |-> <<IF index.NonUnique = 0 THEN "UNIQUE" ELSE "INDEX", "INDEX">>,
     name |-> index.Name, table |-> tableName, columns |-> index.Columns,
     using |-> index.IndexType]

generateAddPrimaryKeySQL(tableName, pk) ==
    [verb |-> "ADD PRIMARY KEY", table |-> tableName, columns |-> pk.Columns]

Difference(type, name, sql) == [Type |-> type, Name |-> name, SQL |-> sql]

\* the orders in which a range over a map with key set S can produce the keys
MapOrders(S) ==
    {o \in [1..Cardinality(S) -> S] : \A i, j \in 1..Cardinality(S) : i # j => o[i] # o[j]}

RECURSIVE Flatten(_)
Flatten(ss) == IF ss = <<>> THEN <<>> ELSE Head(ss) \o Flatten(Tail(ss))

Names(models) == {models[i].Name : i \in 1..Len(models)}

\* map[name] after the loop that fills the map from a slice
ByName(models, name) ==
    LET last == CHOOSE i \in 1..Len(models) :
                   models[i].Name = name /\ \A j \in (i + 1)..Len(models) : models[j].Name # name
    IN models[last]

\* a compareColumns that renders MODIFY COLUMN from the target's definition
compareColumnsFromTarget(source, target, o1, o2) ==
    LET sourceNames == Names(source.Columns)
        targetNames == Names(target.Columns)
        add(name) ==
            IF name \notin targetNames
            THEN <<Difference("ADD_COLUMN", name,
                              generateAddColumnSQL(source.Name, ByName(source.Columns, name)))>>
            ELSE <<>>
        change(name) ==
            IF name \in sourceNames
            THEN IF columnsAreDifferent(ByName(source.Columns, name), ByName(target.Columns, name))
                 THEN <<Difference("MODIFY_COLUMN", name,
                                   generateModifyColumnSQL(source.Name, ByName(target.Columns, name)))>>
                 ELSE <<>>
            ELSE <<Difference("DROP_COLUMN", name,
                              [verb |-> "DROP COLUMN", table |-> source.Name, name |-> name])>>
    IN Flatten([i \in 1..Len(o1) |-> add(o1[i])]) \o Flatten([i \in 1..Len(o2) |-> change(o2[i])])

\* compareColumns, with the orders o1 and o2 of its two ranges over the maps
compareColumns(source, target, o1, o2) ==
    LET sourceNames == Names(source.Columns)
        targetNames == Names(target.Columns)
        add(name) ==
            IF name \notin targetNames
            THEN <<Difference("ADD_COLUMN", name,
                              generateAddColumnSQL(source.Name, ByName(source.Columns, name)))>>
            ELSE <<>>
        change(name) ==
            IF name \in sourceNames
            THEN IF columnsAreDifferent(ByName(source.Columns, name), ByName(target.Columns, name))
                 THEN <<Difference("MODIFY_COLUMN", name,
                                   generateModifyColumnSQL(source.Name, ByName(source.Columns, name)))>>
                 ELSE <<>>
            ELSE <<Difference("DROP_COLUMN", name,
                              [verb |-> "DROP COLUMN", table |-> source.Name, name |-> name])>>
    IN Flatten([i \in 1..Len(o1) |-> add(o1[i])]) \o Flatten([i \in 1..Len(o2) |-> change(o2[i])])

IndexNamed(indexes, name) == CHOOSE idx \in indexes : idx.Name = name

\* compareIndexes, with the orders o1 and o2 of its two ranges over the maps
compareIndexes(source, target, o1, o2) ==
    LET sourceNames == {idx.Name : idx \in source.Indexes}
        targetNames == {idx.Name : idx \in target.Indexes}
        drop(name) ==
            Difference("DROP_INDEX", name,
                       [verb |-> "DROP INDEX", name |-> name, table |-> source.Name])
        create(name) ==
            Difference("ADD_INDEX", name,
                       generateAddIndexSQL(source.Name, IndexNamed(source.Indexes, name)))
        first(name) ==
            IF name \notin targetNames THEN <<create(name)>>
            ELSE IF indexesAreDifferent(IndexNamed(source.Indexes, name),
                                        IndexNamed(target.Indexes, name))
                 THEN <<drop(name), create(name)>>
                 ELSE <<>>
        second(name) == IF name \notin sourceNames THEN <<drop(name)>> ELSE <<>>
    IN Flatten([i \in 1..Len(o1) |-> first(o1[i])]) \o Flatten([i \in 1..Len(o2) |-> second(o2[i])])

comparePrimaryKeys(source, target) ==
    LET drop == Difference("DROP_PRIMARY_KEY", "PRIMARY",
                           [verb |-> "DROP PRIMARY KEY", table |-> source.Name])
        add == Difference("ADD_PRIMARY_KEY", "PRIMARY",
                          generateAddPrimaryKeySQL(source.Name, source.PrimaryKey[1]))
    IN IF source.PrimaryKey = <<>> /\ target.PrimaryKey = <<>> THEN <<>>
       ELSE IF source.PrimaryKey = <<>> THEN <<drop>>
       ELSE IF target.PrimaryKey = <<>> THEN <<add>>
       ELSE IF primaryKeysAreDifferent(source.PrimaryKey[1], target.PrimaryKey[1])
            THEN <<drop, add>>
            ELSE <<>>

\* the lists of a Compare that compares the indexes before the columns
DifferencesIndexesFirst(source, target) ==
    {compareIndexes(source, target, o3, o4)
        \o compareColumns(source, target, o1, o2)
        \o comparePrimaryKeys(source, target) :
       o1 \in MapOrders(Names(source.Columns)), o2 \in MapOrders(Names(target.Columns)),
       o3 \in MapOrders({idx.Name : idx \in source.Indexes}),
       o4 \in MapOrders({idx.Name : idx \in target.Indexes})}

\* the Difference lists that Compare can build for two table models: one for
\* every order in which the four ranges over the maps can run
Differences(source, target) ==
    {compareColumns(source, target, o1, o2)
        \o compareIndexes(source, target, o3, o4)
        \o comparePrimaryKeys(source, target) :
       o1 \in MapOrders(Names(source.Columns)), o2 \in MapOrders(Names(target.Columns)),
       o3 \in MapOrders({idx.Name : idx \in source.Indexes}),
       o4 \in MapOrders({idx.Name : idx \in target.Indexes})}

\* ------------------------------------------- running the generated script
\* The script of a plan holds the statements of the Difference list in list
\* order; the server runs them one by one against the target table, each
\* ALTER/CREATE/DROP taking effect at once, and the run stops at the first
\* statement the server rejects.

Ok(table) == [ok |-> TRUE, table |-> table]

Rejected(table) == [ok |-> FALSE, table |-> table]

ColumnNames(table) == {table.Columns[i].Name : i \in 1..Len(table.Columns)}

\* the columns that lead a key of the table
KeyLeaders(table) ==
    {idx.Columns[1] : idx \in table.Indexes}
        \cup (IF table.PrimaryKey = <<>> THEN {} ELSE {table.PrimaryKey[1]})

\* the catalog row of the column a column statement defines
Defined(sql) ==
    [Name |-> sql.name, DataType |-> sql.type,
     IsNullable |-> IF sql.notNull THEN "NO" ELSE "YES",
     DefaultValue |-> IF sql.default = "none" THEN NullString(FALSE, "")
                      ELSE NullString(TRUE, sql.literal),
     Extra |-> (IF sql.onUpdate THEN {"on update CURRENT_TIMESTAMP"} ELSE {})
                  \cup (IF sql.autoIncrement THEN {"auto_increment"} ELSE {})]

Without(seq, name) == SelectSeq(seq, LAMBDA x : x # name)

\* one statement against a table
Apply(table, sql) ==
    IF table.Columns = <<>> THEN Rejected(table)
    ELSE IF sql.verb = "ADD COLUMN" THEN
        IF sql.name \in ColumnNames(table) \/ sql.autoIncrement THEN Rejected(table)
        ELSE Ok([table EXCEPT !.Columns = Append(@, Defined(sql))])
    ELSE IF sql.verb = "MODIFY COLUMN" THEN
        IF \/ sql.name \notin ColumnNames(table)
           \/ sql.autoIncrement /\ sql.name \notin KeyLeaders(table)
        THEN Rejected(table)
        ELSE Ok([table EXCEPT !.Columns =
                    [i \in 1..Len(@) |->
                        IF @[i].Name # sql.name THEN @[i]
                        ELSE IF sql.name \in Range(table.PrimaryKey)
                             THEN [Defined(sql) EXCEPT !.IsNullable = "NO"]
                             ELSE Defined(sql)]])
    ELSE IF sql.verb = "DROP COLUMN" THEN
        IF sql.name \notin ColumnNames(table) \/ Len(table.Columns) = 1 THEN Rejected(table)
        ELSE Ok([Columns |-> SelectSeq(table.Columns, LAMBDA c : c.Name # sql.name),
                 Indexes |-> {[idx EXCEPT !.Columns = Without(@, sql.name)] :
                                idx \in {x \in table.Indexes : Without(x.Columns, sql.name) # <<>>}},
                 PrimaryKey |-> Without(table.PrimaryKey, sql.name)])
    ELSE IF sql.verb = "CREATE" THEN
        IF \/ sql.words \notin {<<"INDEX">>, <<"UNIQUE", "INDEX">>}
           \/ sql.name \in {idx.Name : idx \in table.Indexes}
           \/ ~(Range(sql.columns) \subseteq ColumnNames(table))
        THEN Rejected(table)
        ELSE Ok([table EXCEPT !.Indexes = @ \cup
                    {[Name |-> sql.name, Columns |-> sql.columns,
                      NonUnique |-> IF sql.words[1] = "UNIQUE" THEN 0 ELSE 1,
                      IndexType |-> sql.using]}])
    ELSE IF sql.verb = "DROP INDEX" THEN
        IF sql.name \notin {idx.Name : idx \in table.Indexes} THEN Rejected(table)
        ELSE Ok([table EXCEPT !.Indexes = {idx \in @ : idx.Name # sql.name}])
    ELSE IF sql.verb = "ADD PRIMARY KEY" THEN
        IF table.PrimaryKey # <<>> \/ ~(Range(sql.columns) \subseteq ColumnNames(table))
        THEN Rejected(table)
        ELSE Ok([table EXCEPT
                    !.PrimaryKey = sql.columns,
                    !.Columns = [i \in 1..Len(@) |->
                                    IF @[i].Name \in Range(sql.columns)
                                    THEN [@[i] EXCEPT !.IsNullable = "NO"] ELSE @[i]]])
    ELSE \* DROP PRIMARY KEY
        IF table.PrimaryKey = <<>> THEN Rejected(table)
        ELSE Ok([table EXCEPT !.PrimaryKey = <<>>])

\* the statements of a Difference list, run in list order
RECURSIVE Run(_, _)
Run(table, differences) ==
    IF differences = <<>> THEN Ok(table)
    ELSE LET r == Apply(table, Head(differences).SQL)
         IN IF r.ok THEN Run(r.table, Tail(differences)) ELSE Rejected(r.table)

TableName == "t"

\* Compare(tableName): both structures are read, then the three comparisons
\* append to the plan; a failed catalog query returns the error and no plan
Compare ==
    /\ cmp = "idle"
    /\ \E err \in {"nil", "source", "target"} :
          IF err = "nil"
          THEN /\ \E d \in Differences(getTableStructure(comparer.SourceDB, TableName),
                                        getTableStructure(comparer.TargetDB, TableName)) :
                     plan' = [TableName |-> TableName, Differences |-> d, Status |-> "pending"]
               /\ cmp' = "compared"
          ELSE /\ plan' = NoPlan
               /\ cmp' = "error"
    /\ UNCHANGED <<service, ctx, sctx, returned, conc, comparer, applied, conns, bench, cmd>>

\* the plan's script is run against a copy of the target table
ApplyScript ==
    /\ cmp = "compared"
    /\ LET r == Run(comparer.TargetDB, plan.Differences)
       IN /\ applied' = r.table
          /\ cmp' = IF r.ok THEN "applied" ELSE "rejected"
    /\ UNCHANGED <<service, ctx, sctx, returned, conc, comparer, plan, conns, bench, cmd>>

\* ------------------------------------------------ the tables compared
IntNotNull == [DataType |-> "int", IsNullable |-> "NO",
               DefaultValue |-> NullString(FALSE, ""), Extra |-> {}]

IntDefault == [DataType |-> "int", IsNullable |-> "YES",
               DefaultValue |-> NullString(TRUE, "0"), Extra |-> {}]

VarcharNull == [DataType |-> "varchar(8)", IsNullable |-> "YES",
                DefaultValue |-> NullString(FALSE, ""), Extra |-> {}]

VarcharEmpty == [DataType |-> "varchar(8)", IsNullable |-> "NO",
                 DefaultValue |-> NullString(TRUE, ""), Extra |-> {}]

Stamp == [DataType |-> "timestamp", IsNullable |-> "NO",
          DefaultValue |-> NullString(TRUE, "CURRENT_TIMESTAMP"),
          Extra |-> {"on update CURRENT_TIMESTAMP"}]

Serial == [DataType |-> "int", IsNullable |-> "NO",
           DefaultValue |-> NullString(FALSE, ""), Extra |-> {"auto_increment"}]

Definitions == {IntNotNull, IntDefault, VarcharNull, VarcharEmpty, Stamp, Serial}

Column(name, def) ==
    [Name |-> name, DataType |-> def.DataType, IsNullable |-> def.IsNullable,
     DefaultValue |-> def.DefaultValue, Extra |-> def.Extra]

ColumnNameSet == {"a", "b", "c"}

\* one column a of every definition; an auto_increment column is the key
OneColumnTables ==
    {[Columns |-> <<Column("a", d)>>, Indexes |-> {},
      PrimaryKey |-> IF "auto_increment" \in d.Extra THEN <<"a">> ELSE <<>>] :
       d \in Definitions}

\* up to MaxCols columns of distinct names, in any order; no column at all is
\* a table the database does not have
ColumnTables ==
    {NoTable}
    \cup UNION {{[Columns |-> [i \in 1..n |-> Column(names[i], defs[i])], Indexes |-> {},
                  PrimaryKey |-> <<>>] :
                   names \in {f \in [1..n -> ColumnNameSet] :
                                \A i, j \in 1..n : i # j => f[i] # f[j]},
                   defs \in [1..n -> {IntNotNull, VarcharNull}]} : n \in 1..MaxCols}

TwoColumns == <<Column("a", IntNotNull), Column("b", IntNotNull)>>

Index(name, columns, nonUnique, indexType) ==
    [Name |-> name, Columns |-> columns, NonUnique |-> nonUnique, IndexType |-> indexType]

\* columns a and b with index i1 absent or of any shape and index i2 absent
\* or on b
IndexTables ==
    {[Columns |-> TwoColumns, Indexes |-> i1 \cup i2, PrimaryKey |-> <<>>] :
       i1 \in {{}} \cup {{Index("i1", c, u, y)} :
                            c \in {<<"a">>, <<"b">>, <<"a", "b">>, <<"b", "a">>},
                            u \in {0, 1}, y \in {"BTREE", "HASH"}},
       i2 \in {{}, {Index("i2", <<"b">>, 1, "BTREE")}}}

\* columns a and b with every primary key over them
KeyTables ==
    {[Columns |-> TwoColumns, Indexes |-> {}, PrimaryKey |-> k] :
       k \in {<<>>, <<"a">>, <<"b">>, <<"a", "b">>, <<"b", "a">>}}

\* column a with a second column or none, index i1 on a absent, unique or
\* not, and the primary key on a or none
MixedTables ==
    {[Columns |-> <<Column("a", IntNotNull)>> \o c, Indexes |-> i, PrimaryKey |-> k] :
       c \in {<<>>, <<Column("b", IntNotNull)>>, <<Column("b", VarcharNull)>>,
              <<Column("c", VarcharNull)>>},
       i \in {{}, {Index("i1", <<"a">>, 0, "BTREE")}, {Index("i1", <<"a">>, 1, "BTREE")}},
       k \in {<<>>, <<"a">>}}

InitDiff ==
    /\ config = [BatchSize |-> 1, SyncMode |-> "full",
                 TablePairs |-> <<Pair("s1", "t1", "checksum", "")>>]
    /\ sourceDB = [n \in {"s1"} |-> Table(BaseCols, <<"id">>, {})]
    /\ targetDB = [n \in {"t1"} |-> Table(BaseCols, <<"id">>, {})]
    /\ InitCommon
    /\ \E family \in {OneColumnTables, ColumnTables, IndexTables, KeyTables, MixedTables} :
          \E s \in family, t \in family :
             comparer = [SourceDB |-> s, TargetDB |-> t]
    /\ plan = NoPlan
    /\ applied = NoTable
    /\ cmp = "idle"
    /\ conns = [c \in 1..MaxConns |-> Closed]
    /\ bench = IdleBench
    /\ cmd = IdleCmd

NextDiff == Compare \/ ApplyScript

SpecDiff == InitDiff /\ [][NextDiff]_vars

Snapshot(db) == getTableStructure(db, TableName)

\* C19: self-diff is empty. Whenever Compare has read the same snapshot from
\* the source and from the target (any columns, indexes and optional primary
\* key), the Difference list of its plan is empty, in whatever order the
\* maps were ranged over.
C19_SelfDiffEmpty ==
    /\ (cmp = "compared" /\ Snapshot(comparer.SourceDB) = Snapshot(comparer.TargetDB))
          => plan.Differences = <<>>
    /\ (cmp = "idle" /\ comparer.SourceDB = comparer.TargetDB)
          => Differences(Snapshot(comparer.SourceDB), Snapshot(comparer.SourceDB)) = {<<>>}

\* a table whose column has a default was compared with itself
C19_Witness ==
    /\ cmp = "compared"
    /\ comparer.SourceDB = comparer.TargetDB
    /\ \E i \in 1..Len(comparer.SourceDB.Columns) :
          comparer.SourceDB.Columns[i].DefaultValue.Valid
    /\ plan.Differences = <<>>

\* C20: round-trip convergence. Once the Difference list of diff(A, B) has
\* been applied in list order to a copy of B, every statement was accepted
\* and the result's snapshot equals A's: the same columns in the same order
\* with the same definitions, the same indexes and the same primary key.
C20_RoundTrip ==
    cmp \in {"applied", "rejected"}
        => /\ cmp = "applied"
           /\ Snapshot(applied) = Snapshot(comparer.SourceDB)

\* the positions of a plan's Difference list that hold a difference of one of
\* the types for the name
Positions(types, name) ==
    {i \in 1..Len(plan.Differences) :
        plan.Differences[i].Type \in types /\ plan.Differences[i].Name = name}

IndexTypes == {"ADD_INDEX", "MODIFY_INDEX", "DROP_INDEX"}

SharedIndexNames ==
    {idx.Name : idx \in comparer.SourceDB.Indexes} \cap {idx.Name : idx \in comparer.TargetDB.Indexes}

\* C21: order-sensitive index equality. For an index of the same name on both
\* sides, a plan of Compare holds, when the two differ in column sequence
\* (a permutation included), uniqueness or method, exactly one DROP_INDEX for
\* the name immediately followed by exactly one ADD_INDEX for it rendered from
\* the source index, and nothing for the name when they are equal; no plan
\* holds a MODIFY_INDEX.
C21_IndexEquality ==
    cmp = "compared" =>
        /\ \A i \in 1..Len(plan.Differences) : plan.Differences[i].Type # "MODIFY_INDEX"
        /\ \A name \in SharedIndexNames :
              LET s == IndexNamed(comparer.SourceDB.Indexes, name)
                  t == IndexNamed(comparer.TargetDB.Indexes, name)
                  at == Positions(IndexTypes, name)
              IN IF s.Columns # t.Columns \/ s.NonUnique # t.NonUnique \/ s.IndexType # t.IndexType
                 THEN \E i \in 1..(Len(plan.Differences) - 1) :
                        /\ at = {i, i + 1}
                        /\ plan.Differences[i].Type = "DROP_INDEX"
                        /\ plan.Differences[i + 1].Type = "ADD_INDEX"
                        /\ plan.Differences[i + 1].SQL = generateAddIndexSQL(TableName, s)
                 ELSE at = {}

\* an index whose columns are permuted between the sides was compared
C21_Witness ==
    /\ cmp = "compared"
    /\ \E name \in SharedIndexNames :
          LET s == IndexNamed(comparer.SourceDB.Indexes, name)
              t == IndexNamed(comparer.TargetDB.Indexes, name)
          IN /\ s.Columns # t.Columns /\ Range(s.Columns) = Range(t.Columns)
             /\ s.NonUnique = t.NonUnique /\ s.IndexType = t.IndexType
             /\ Cardinality(Positions({"DROP_INDEX"}, name)) = 1
             /\ Cardinality(Positions({"ADD_INDEX"}, name)) = 1

ColumnTypes == {"ADD_COLUMN", "MODIFY_COLUMN", "DROP_COLUMN"}

PrimaryKeyTypes == {"ADD_PRIMARY_KEY", "DROP_PRIMARY_KEY"}

\* 1 for a column difference, 2 for an index difference, 3 for a primary-key
\* difference
Part(type) == IF type \in ColumnTypes THEN 1 ELSE IF type \in IndexTypes THEN 2 ELSE 3

\* C22: Difference order. In every Difference list of a plan of Compare the
\* column differences precede the index differences, which precede the
\* primary-key differences.
C22_DifferenceOrder ==
    cmp = "compared" =>
        \A i, j \in 1..Len(plan.Differences) :
            i < j => Part(plan.Differences[i].Type) <= Part(plan.Differences[j].Type)

\* a plan with a column, an index and a primary-key difference
C22_Witness ==
    /\ cmp = "compared"
    /\ \A part \in 1..3 :
          \E i \in 1..Len(plan.Differences) : Part(plan.Differences[i].Type) = part

\* C23: deterministic diff. The Difference list of a plan of Compare is the
\* only list Compare can produce for the two snapshots it read (the same
\* differences in the same order on every call), and Compare leaves the two
\* tables as they were.
C23_DeterministicDiff ==
    cmp = "compared" =>
        Differences(Snapshot(comparer.SourceDB), Snapshot(comparer.TargetDB))
            = {plan.Differences}

\* C24: extractor NotFound. When the table has no column in the catalog of
\* the source or of the target, Compare returns an error and no plan.
C24_NotFound ==
    (cmp # "idle" /\ (comparer.SourceDB.Columns = <<>> \/ comparer.TargetDB.Columns = <<>>))
        => (cmp = "error" /\ plan = NoPlan)

\* the floors (the target's greatest timestamp) that the pages of the run of
\* task t have read so far
Floors(t) == {log[t][i].arg : i \in {j \in 1..Len(log[t]) : log[t][j].ev = "floor"}}

\* C25: single floor in incremental mode. In mode "incremental" with strategy
\* "update_time" every page of one run of a task reads the source rows above
\* the same floor value, whatever the earlier pages wrote to the target.
C25_SingleFloor ==
    \A t \in DOMAIN tasks : Cardinality(Floors(t)) <= 1

\* ------------------------------------------------ the connection pool
\* Every statement on targetDB runs on a connection of the pool. A
\* transaction takes a connection for itself from Begin to Commit/Rollback;
\* a statement outside a transaction takes one for its own duration. The
\* pool hands out an idle connection when it has one and opens a new one
\* otherwise; a released connection goes back to the pool with its session
\* as it is.

quiet == <<service, ctx, sctx, returned, conc, comparer, plan, applied, cmp, bench, cmd>>

\* the pool gives connection c to a caller
Free(c) ==
    \/ conns[c].at = "idle"
    \/ conns[c].at = "closed" /\ \A d \in 1..MaxConns : conns[d].at # "idle"

\* s.targetDB.Transaction(func(tx)): Begin on connection c, then
\* tx.Exec("SET FOREIGN_KEY_CHECKS = 0"), whose failure is only logged.
\* kind tells the caller: the page transaction of syncBatchData or the
\* transaction of cleanupTargetTable.
TransactionBegin(c, kind) ==
    /\ Free(c)
    /\ \E failed \in BOOLEAN :
          conns' = [conns EXCEPT ![c] = [at |-> kind,
                                        fk |-> IF failed THEN conns[c].fk ELSE 0]]
    /\ UNCHANGED quiet

\* the function of the transaction returns: Commit on nil, Rollback on an
\* error; the connection goes back to the pool
TransactionEnd(c) ==
    /\ conns[c].at \in {"page", "cleanup"}
    /\ conns' = [conns EXCEPT ![c].at = "idle"]
    /\ UNCHANGED quiet

\* a statement on targetDB outside a transaction starts on connection c
StatementBegin(c) ==
    /\ Free(c)
    /\ conns' = [conns EXCEPT ![c].at = "statement"]
    /\ UNCHANGED quiet

StatementEnd(c) ==
    /\ conns[c].at = "statement"
    /\ conns' = [conns EXCEPT ![c].at = "idle"]
    /\ UNCHANGED quiet

\* SetConnMaxLifetime(time.Hour): an idle connection older than the lifetime
\* is closed; its successor is a new session
Expire(c) ==
    /\ conns[c].at = "idle"
    /\ conns' = [conns EXCEPT ![c] = Closed]
    /\ UNCHANGED quiet

InitPool ==
    /\ config = [BatchSize |-> 1, SyncMode |-> "full",
                 TablePairs |-> <<Pair("s1", "t1", "checksum", "")>>]
    /\ sourceDB = [n \in {"s1"} |-> Table(BaseCols, <<"id">>, {})]
    /\ targetDB = [n \in {"t1"} |-> Table(BaseCols, <<"id">>, {})]
    /\ InitCommon
    /\ InitComparer

NextPool ==
    \/ \E c \in 1..MaxConns, kind \in {"page", "cleanup"} : TransactionBegin(c, kind)
    \/ \E c \in 1..MaxConns : TransactionEnd(c)
    \/ \E c \in 1..MaxConns : StatementBegin(c)
    \/ \E c \in 1..MaxConns : StatementEnd(c)
    \/ \E c \in 1..MaxConns : Expire(c)

SpecPool == InitPool /\ [][NextPool]_vars

\* C26: foreign-key suspension is scoped to the transaction. Foreign-key
\* checking is off only on the connection of a page or cleanup transaction
\* that is under way: a connection that is back in the pool, and one on
\* which a later statement runs, has FOREIGN_KEY_CHECKS = 1, and a
\* connection handed to a later transaction had it when it was handed out.
C26_ForeignKeyScope ==
    \A c \in 1..MaxConns : conns[c].at \in {"idle", "statement"} => conns[c].fk = 1

\* the run of task t has logged event e
Logged(t, e) == \E i \in 1..Len(log[t]) : log[t][i].ev = e

\* C27: only replication is conditional. A run of a task that ends with
\* status "completed" has executed the drift cleanup before, whether the
\* detection reported "sync needed" or not, so that no target row whose
\* primary key the source lacks is left.
C27_CleanupAlways ==
    \A t \in DOMAIN tasks :
        Logged(t, "OnSyncComplete")
            => (Logged(t, "cleanup_empty") \/ Logged(t, "cleanup_ok"))

ColumnNamed(table, name) ==
    table.Columns[CHOOSE i \in 1..Len(table.Columns) : table.Columns[i].Name = name]

\* C28: column classification. In a plan of Compare a column name has exactly
\* one ADD_COLUMN when only the source has it, exactly one DROP_COLUMN when
\* only the target has it, exactly one MODIFY_COLUMN rendered from the
\* source's definition when both have it and the definitions differ in type,
\* nullability, extra, default or auto-update, and no column difference
\* otherwise; a different key role alone yields none.
C28_ColumnClassification ==
    cmp = "compared" =>
        \A name \in ColumnNameSet :
            LET inSource == name \in ColumnNames(comparer.SourceDB)
                inTarget == name \in ColumnNames(comparer.TargetDB)
                at == Positions(ColumnTypes, name)
                one(type) == /\ Cardinality(at) = 1
                             /\ \A i \in at : plan.Differences[i].Type = type
            IN IF inSource /\ ~inTarget THEN one("ADD_COLUMN")
               ELSE IF inTarget /\ ~inSource THEN one("DROP_COLUMN")
               ELSE IF ~inSource THEN at = {}
               ELSE LET s == ColumnNamed(comparer.SourceDB, name)
                        t == ColumnNamed(comparer.TargetDB, name)
                    IN IF \/ s.DataType # t.DataType
                          \/ s.IsNullable # t.IsNullable
                          \/ s.Extra # t.Extra
                          \/ s.DefaultValue.Valid # t.DefaultValue.Valid
                          \/ (s.DefaultValue.Valid /\ s.DefaultValue.String # t.DefaultValue.String)
                       THEN /\ one("MODIFY_COLUMN")
                            /\ \A i \in at :
                                  plan.Differences[i].SQL =
                                      ColumnSQL("MODIFY COLUMN", TableName,
                                                ByName(Snapshot(comparer.SourceDB).Columns, name))
                       ELSE at = {}

\* a plan that adds a column, modifies another and drops a third
C28_Witness ==
    /\ cmp = "compared"
    /\ \A type \in ColumnTypes :
          \E i \in 1..Len(plan.Differences) : plan.Differences[i].Type = type

\* the primary-key differences of the plan, in list order
PrimaryKeyPart == SelectSeq(plan.Differences, LAMBDA d : d.Type \in PrimaryKeyTypes)

IsPrefix(prefix, seq) ==
    /\ Len(prefix) <= Len(seq)
    /\ \A i \in 1..Len(prefix) : seq[i] = prefix[i]

\* C30: schema repair is additive-only. The schema repair of a task leaves
\* the source database as it is and changes nothing on the target but the
\* column list of the task's target table, which keeps its columns in their
\* order and gains, after them, only columns of the source table that it
\* lacked; the primary key and the rows stay as they were.
C30_Step ==
    \A t \in DOMAIN tasks :
        (pc[t] = "schema" /\ pc'[t] # "schema") =>
            LET S == tasks[t].SourceTable
                T == tasks[t].TargetTable
            IN /\ sourceDB' = sourceDB
               /\ \A n \in DOMAIN targetDB : n # T => targetDB'[n] = targetDB[n]
               /\ targetDB'[T].pk = targetDB[T].pk
               /\ targetDB'[T].rows = targetDB[T].rows
               /\ IsPrefix(targetDB[T].cols, targetDB'[T].cols)
               /\ \A i \in (Len(targetDB[T].cols) + 1)..Len(targetDB'[T].cols) :
                     /\ targetDB'[T].cols[i] \in Range(sourceDB[S].cols)
                     /\ targetDB'[T].cols[i] \notin Range(targetDB[T].cols)

C30_AdditiveOnly == [][C30_Step]_vars

\* a schema repair has added a column to a target table that had columns
C30_Witness ==
    \E t \in DOMAIN tasks :
        /\ Logged(t, "add_column")
        /\ pc[t] = "columns"
        /\ Len(frame[t].targetColNames) > 0
        /\ Len(targetDB[tasks[t].TargetTable].cols) > Len(frame[t].targetColNames)

\* ------------------------------------------- the benchmark service's test
\* TestSyncServicePerformance runs syncAllSyncServiceBenchMark against a mock
\* database that holds an ordered list of expected statements: a statement
\* that matches the first expectation left consumes it, any other statement
\* is answered with an error and consumes nothing.

still == <<service, ctx, sctx, returned, conc, comparer, plan, applied, cmp, conns, cmd>>

Statement(sql, nargs, record) == [sql |-> sql, nargs |-> nargs, record |-> record]

Expectation(sql, nargs) == [sql |-> sql, nargs |-> nargs]

\* the regular expression matches the statement text and WithArgs has one
\* matcher (AnyArg) per argument
Matches(expectation, statement) ==
    expectation.sql = statement.sql /\ expectation.nargs = statement.nargs

\* s.db.Raw("SELECT * FROM user_records WHERE updated_at > ?", ...)
SelectStatement == Statement("SELECT", 1, 0)

\* an INSERT that leaves out updated_at
InsertStatementTenArgs(record) == Statement("INSERT", 10, record)

\* s.db.Exec("INSERT INTO user_records (...) VALUES (?, ... ?)", record[...] x 11)
InsertStatement(record) == Statement("INSERT", 11, record)

\* the mock after a statement was sent to it
Send(b, statement) ==
    IF b.expected # <<>> /\ Matches(Head(b.expected), statement)
    THEN [b EXCEPT !.expected = Tail(@), !.issued = Append(@, statement)]
    ELSE [b EXCEPT !.issued = Append(@, statement)]

\* the test up to the call: the rows of the mocked query result, one
\* ExpectQuery and one ExpectExec with eleven AnyArg per record
ExpectAll ==
    /\ bench.pc = "idle"
    /\ \E n \in 0..MaxRecords : \E rows \in [1..n -> 1..MaxRecords] :
          bench' = [bench EXCEPT
                       !.pc = "select",
                       !.rows = rows,
                       !.expected = <<Expectation("SELECT", 1)>>
                                       \o [i \in 1..n |-> Expectation("INSERT", 11)]]
    /\ UNCHANGED still

\* syncAllSyncServiceBenchMark: Raw(SELECT).Scan(&records), the error ignored
BenchSelect ==
    /\ bench.pc = "select"
    /\ LET accepted == bench.expected # <<>> /\ Matches(Head(bench.expected), SelectStatement)
       IN bench' = [Send(bench, SelectStatement) EXCEPT
                       !.pc = "insert",
                       !.records = IF accepted THEN bench.rows ELSE <<>>]
    /\ UNCHANGED still

\* syncAllSyncServiceBenchMark: one iteration of for _, record := range records
BenchInsert ==
    /\ bench.pc = "insert"
    /\ Len(bench.issued) - 1 < Len(bench.records)
    /\ bench' = Send(bench, InsertStatement(bench.records[Len(bench.issued)]))
    /\ UNCHANGED still

\* the call returns and the test asks mock.ExpectationsWereMet()
BenchReturn ==
    /\ bench.pc = "insert"
    /\ Len(bench.issued) - 1 = Len(bench.records)
    /\ bench' = [bench EXCEPT !.pc = "returned", !.failed = (bench.expected # <<>>)]
    /\ UNCHANGED still

InitBench ==
    /\ config = [BatchSize |-> 1, SyncMode |-> "full",
                 TablePairs |-> <<Pair("s1", "t1", "checksum", "")>>]
    /\ sourceDB = [n \in {"s1"} |-> Table(BaseCols, <<"id">>, {})]
    /\ targetDB = [n \in {"t1"} |-> Table(BaseCols, <<"id">>, {})]
    /\ InitCommon
    /\ InitComparer

NextBench == ExpectAll \/ BenchSelect \/ BenchInsert \/ BenchReturn

SpecBench == InitBench /\ [][NextBench]_vars

\* C31: test-asserted statement sequence. When one call of
\* syncAllSyncServiceBenchMark has returned it has issued exactly one SELECT
\* and then one INSERT with eleven arguments per returned record, in result
\* order and nothing in between, and the mock holds no expectation that was
\* not consumed, for every record count.
C31_StatementSequence ==
    bench.pc = "returned" =>
        /\ bench.issued = <<SelectStatement>>
                             \o [i \in 1..Len(bench.rows) |-> Statement("INSERT", 11, bench.rows[i])]
        /\ bench.expected = <<>>
        /\ ~bench.failed

\* a call over several records has returned
C31_Witness ==
    /\ bench.pc = "returned"
    /\ Len(bench.rows) >= 2
    /\ bench.rows[1] # bench.rows[2]
    /\ Len(bench.issued) = Len(bench.rows) + 1

\* C32: strategy dispatch and decision. In a run whose detection has returned
\* without a failed query, the count strategy was used exactly when the
\* pair's method is "count", the comparison of the greatest timestamps
\* exactly when it is "update_time" with a non-empty timestamp column that
\* the source table has, and the checksum strategy in every other case; and
\* the detection reported "sync needed" exactly when the quantity of the
\* strategy (row count, table checksum, greatest timestamp) differs between
\* the source and the target table.
C32_StrategyDispatch ==
    \A t \in DOMAIN tasks :
        (HasEv(t, "detect") /\ TablesAsDetected(t)) =>
            LET S == tasks[t].SourceTable
                T == tasks[t].TargetTable
                tablePair == getTableConfig(S)
                byCount == tablePair.CheckMethod = "count"
                byTime == /\ tablePair.CheckMethod = "update_time"
                          /\ tablePair.UpdateField # ""
                          /\ tablePair.UpdateField \in Range(sourceDB[S].cols)
                differs ==
                    IF byCount
                    THEN Cardinality(sourceDB[S].rows) # Cardinality(targetDB[T].rows)
                    ELSE IF byTime
                    THEN LastUpdate(sourceDB, S, tablePair.UpdateField)
                            # LastUpdate(targetDB, T, tablePair.UpdateField)
                    ELSE ChecksumTable(sourceDB, S) # ChecksumTable(targetDB, T)
            IN /\ HasEv(t, "checkByCount") <=> byCount
               /\ (HasEv(t, "checkByUpdateTime") /\ ~HasEv(t, "checkByChecksum")) <=> byTime
               /\ HasEv(t, "checkByChecksum") <=> (~byCount /\ ~byTime)
               /\ HasEvArg(t, "detect", 1) <=> differs

\* a pair with an unknown check method was decided by the checksum strategy
C32_Witness ==
    \E t \in DOMAIN tasks :
        /\ getTableConfig(tasks[t].SourceTable).CheckMethod
              \notin {"checksum", "count", "update_time"}
        /\ HasEv(t, "checkByChecksum")
        /\ HasEvArg(t, "detect", 1)
        /\ pc[t] = "count"

\* C33: page atomicity without global rollback. While a page is retried, and
\* when it fails after its attempts are exhausted, the target table holds
\* what the earlier, committed pages left: none of the failing page's row
\* writes, those of its successful passes included, remain, and no committed
\* page is undone. A failing drift cleanup leaves every committed page in the
\* target as well.
C33_Step ==
    \A t \in DOMAIN tasks :
        LET T == tasks[t].TargetTable
        IN /\ (pc[t] = "batch" /\ pc'[t] \in {"batch", "done"})
                 => targetDB'[T] = targetDB[T]
           /\ (pc[t] = "cleanup" /\ pc'[t] = "done" /\ tasks'[t].Status = "error")
                 => targetDB'[T] = targetDB[T]

C33_PageAtomicity == [][C33_Step]_vars

\* after a committed page, a later page wrote rows and was then rolled back
C33_Witness ==
    \E t \in DOMAIN tasks :
        /\ HasEv(t, "rollback")
        /\ \E i, j \in 1..Len(log[t]) :
              /\ i < j /\ log[t][i].ev = "commit" /\ log[t][j].ev = "upsert"
              /\ \A k \in j..Len(log[t]) : log[t][k].ev # "commit"
        /\ targetDB[tasks[t].TargetTable].rows # {}

\* the floor the first page of the run read: the target's greatest timestamp
\* when the run started
FirstFloor(t) ==
    LET at == {i \in 1..Len(log[t]) : log[t][i].ev = "floor"}
    IN log[t][CHOOSE i \in at : \A j \in at : i <= j].arg

\* C34: incremental completeness. In mode "incremental" with strategy
\* "update_time", once a run of a task has ended "completed" (the source is
\* never written during a run), every source row whose timestamp exceeds the
\* target's greatest timestamp as of the start of the run is in the target.
C34_IncrementalComplete ==
    \A t \in DOMAIN tasks :
        LET S == tasks[t].SourceTable
            T == tasks[t].TargetTable
            tablePair == getTableConfig(S)
        IN (/\ config.SyncMode = "incremental"
            /\ tablePair.CheckMethod = "update_time" /\ tablePair.UpdateField # ""
            /\ HasEv(t, "OnSyncComplete") /\ tasks[t].Status = "completed"
            /\ Floors(t) # {})
           => \A r \in sourceDB[S].rows :
                 Val(r, tablePair.UpdateField) > FirstFloor(t) => r \in targetDB[T].rows

\* the mode is not "full" and the pair's method is not "update_time" with a
\* timestamp column: the page loop reads nothing
ReadsNothing(t) ==
    LET tablePair == getTableConfig(tasks[t].SourceTable)
    IN /\ config.SyncMode # "full"
       /\ ~(tablePair.CheckMethod = "update_time" /\ tablePair.UpdateField # "")

\* the pages of the run that were applied
Pages(t) == {log[t][i].arg : i \in {j \in 1..Len(log[t]) : log[t][j].ev = "commit"}}

CleanupRan(t) == HasEv(t, "cleanup_err") \/ HasEv(t, "cleanup_empty") \/ HasEv(t, "cleanup_ok")

C35_State ==
    \A t \in DOMAIN tasks :
        ReadsNothing(t) =>
            LET N == Cardinality(sourceDB[tasks[t].SourceTable].rows)
            IN /\ NoneOf(t, {"read", "read_err", "floor", "upsert", "row_err", "rollback"})
               /\ pc[t] = "batch" => frame[t].sourceRecords = <<>>
               /\ (pc[t] = "cleanup" \/ CleanupRan(t))
                     => Pages(t) = 0..(CeilDiv(N, tasks[t].BatchSize) - 1)
               /\ (HasEv(t, "count") /\ Ended(t)) => CleanupRan(t)
               /\ (HasEv(t, "count") /\ Ended(t) /\ ~HasEv(t, "cleanup_err"))
                     => tasks[t].Status = "completed" /\ HasEv(t, "OnSyncComplete")

C35_Step ==
    \A t \in DOMAIN tasks :
        (ReadsNothing(t) /\ pc[t] \in {"read", "batch"})
            => targetDB'[tasks[t].TargetTable] = targetDB[tasks[t].TargetTable]

C36_Step ==
    \A t \in DOMAIN tasks :
        /\ tasks'[t].Error # tasks[t].Error
              => /\ tasks'[t].Status = "error" /\ tasks'[t].Error # "nil"
                 /\ Len(log'[t]) > Len(log[t])
                 /\ log'[t][Len(log'[t])].ev = "OnSyncError"
        /\ (tasks'[t].Status = "completed" /\ Len(log'[t]) > Len(log[t])
               /\ log'[t][Len(log'[t])].ev = "OnSyncComplete")
              => tasks'[t].Error = tasks[t].Error

\* C36: stale error. A task's Error is written only by notifyError, which
\* sets status "error" and calls OnSyncError, and is never set back to nil;
\* the step that ends a run "completed" leaves Error as it was, so a task
\* that failed once keeps that Error through every later successful run.
C36_StaleError == [][C36_Step]_vars

\* after a failed run and a successful run: "completed" with the old Error
C36_Witness ==
    \E t \in DOMAIN tasks :
        /\ ticks = 2
        /\ tasks[t].Status = "completed" /\ tasks[t].Error # "nil"
        /\ HasEv(t, "OnSyncComplete") /\ ~HasEv(t, "OnSyncError")

\* the configured pairs a task can have been registered from: same source
\* table and same target table as the task
RegisteredFrom(t) ==
    {i \in 1..Len(config.TablePairs) :
        /\ config.TablePairs[i].Source = tasks[t].SourceTable
        /\ config.TablePairs[i].Target = tasks[t].TargetTable}

\* C37: task and pair settings agree. In every run of a task that consulted
\* the pair settings, the check method and the timestamp column returned by
\* the lookup by source table name are those of a configured pair with the
\* task's source table and the task's target table, or the default (same
\* name, checksum) when no configured pair has that source.
C37_SettingsAgree ==
    \A t \in DOMAIN tasks :
        HasEv(t, "detect") =>
            LET S == tasks[t].SourceTable
                consulted == getTableConfig(S)
            IN IF \A i \in 1..Len(config.TablePairs) : config.TablePairs[i].Source # S
               THEN consulted = [Source |-> S, Target |-> S,
                                 CheckMethod |-> "checksum", UpdateField |-> ""]
               ELSE \E i \in RegisteredFrom(t) :
                       /\ consulted.CheckMethod = config.TablePairs[i].CheckMethod
                       /\ consulted.UpdateField = config.TablePairs[i].UpdateField

\* the one column the cleanup joins on: the first column of the target
\* table flagged as primary key, "id" when none is flagged
JoinColumn(t) ==
    LET key == targetDB[tasks[t].TargetTable].pk
    IN IF key = <<>> THEN "id" ELSE Head(key)

apart == <<service, ctx, sctx, returned, conc, comparer, plan, applied, cmp, conns, bench>>

\* tmpTable := "__tmp_sync_check_" + tbl
TmpTable(tbl) == "__tmp_sync_check_" \o tbl

\* the table names of the two databases
TableNames == {"a", "b"}

\* the orders in which the catalog query can return a set of names
NameOrders(S) ==
    {s \in [1..Cardinality(S) -> S] : \A i, j \in 1..Cardinality(S) : s[i] = s[j] => i = j}

\* "DROP TABLE IF EXISTS `name`"; ok: the statement was executed
DropTable(db, name, ok) == IF ok THEN db \ {name} ELSE db

\* the two GetAllTableNames calls and the extraTables loop header;
\* fail: a catalog query fails and logrus.Fatalf ends the command
ListExtraTables ==
    /\ cmd.pc = "idle"
    /\ \E fail \in BOOLEAN :
       IF fail
       THEN cmd' = [cmd EXCEPT !.pc = "finished", !.before = cmd.source]
       ELSE \E extraTables \in NameOrders(cmd.target \ cmd.source) :
               cmd' = [cmd EXCEPT !.pc = IF extraTables = <<>> THEN "finished" ELSE "show",
                                  !.before = cmd.source,
                                  !.extraTables = extraTables]
    /\ UNCHANGED apart

\* the loop continues with the next extra table or the command returns
NextTable(c) ==
    [c EXCEPT !.extraTables = Tail(c.extraTables), !.created = "",
              !.pc = IF Len(c.extraTables) > 1 THEN "show" ELSE "finished"]

\* GetCreateTableSQL(TargetDB, tbl): on an error the loop continues; the
\* CREATE statement is written to its file
GetCreateTableSQL ==
    /\ cmd.pc = "show"
    /\ \E fail \in BOOLEAN :
          cmd' = IF fail THEN NextTable(cmd) ELSE [cmd EXCEPT !.pc = "create"]
    /\ UNCHANGED apart

\* _ = DropTable(SourceDB, tmpTable), then CreateTable(SourceDB, tmpCreateSQL):
\* on an error the loop continues. CREATE TABLE fails when the name exists.
CreateTable ==
    /\ cmd.pc = "create"
    /\ \E dropped \in BOOLEAN, fail \in BOOLEAN :
          LET tmpTable == TmpTable(Head(cmd.extraTables))
              source == DropTable(cmd.source, tmpTable, dropped)
          IN IF fail \/ tmpTable \in source
             THEN cmd' = NextTable([cmd EXCEPT !.source = source])
             ELSE cmd' = [cmd EXCEPT !.source = source \cup {tmpTable},
                                     !.created = tmpTable, !.pc = "compare"]
    /\ UNCHANGED apart

\* comparer.Compare(tbl), which reads the catalogs only, then
\* _ = DropTable(SourceDB, tmpTable) on either outcome
CompareExtra ==
    /\ cmd.pc = "compare"
    /\ \E err \in BOOLEAN, dropped \in BOOLEAN :
          cmd' = NextTable([cmd EXCEPT
                               !.source = DropTable(cmd.source, cmd.created, dropped)])
    /\ UNCHANGED apart

InitCmd ==
    /\ config = [BatchSize |-> 1, SyncMode |-> "full",
                 TablePairs |-> <<Pair("s1", "t1", "checksum", "")>>]
    /\ sourceDB = [n \in {"s1"} |-> Table(BaseCols, <<"id">>, {})]
    /\ targetDB = [n \in {"t1"} |-> Table(BaseCols, <<"id">>, {})]
    /\ InitCommon
    /\ comparer = [SourceDB |-> NoTable, TargetDB |-> NoTable]
    /\ plan = NoPlan
    /\ applied = NoTable
    /\ cmp = "idle"
    /\ conns = [c \in 1..MaxConns |-> Closed]
    /\ bench = IdleBench
    /\ \E source \in SUBSET (TableNames \cup {TmpTable(n) : n \in TableNames}),
          target \in SUBSET TableNames :
          cmd = [IdleCmd EXCEPT !.source = source, !.target = target]

NextCmd == ListExtraTables \/ GetCreateTableSQL \/ CreateTable \/ CompareExtra

SpecCmd == InitCmd /\ [][NextCmd]_vars

\* C39: source database left unchanged by the all-tables comparison. Between
\* two target-only tables and when the command has finished, the source
\* database holds the same set of tables as before the command started: the
\* temporary table of every target-only table was dropped again, after a
\* successful comparison and after a comparison error.
C39_SourceUnchanged ==
    cmd.pc \in {"show", "finished"} => cmd.source = cmd.before
====
